---------------------------- MODULE Spec2Model ----------------------------
(***************************************************************************)
(* Model of the libmedia player adapter of jellyfin-web.                   *)
(*                                                                         *)
(* The repository holds three revisions of the adapter class               *)
(* LibmediaPlayer:                                                         *)
(*   "plugin"  - src/src/plugins/libmediaPlayer/plugin.js                  *)
(*               (subtitles rendered by the adapter, audio mapped to the   *)
(*               engine, managed-source -> raw-stream fallback)            *)
(*   "part000" - src/unnamed/part_000                                      *)
(*               (audio and subtitles mapped to the engine, external       *)
(*               subtitles ingested on demand, fallback)                   *)
(*   "part001" - src/unnamed/part_001                                      *)
(*               (no fallback pipeline, mapping by container index)        *)
(* The variable build says which of them is instantiated; it never         *)
(* changes.  The embedded engine (window.AVPlayer) is not code of the      *)
(* repository: it is modelled as an environment whose calls succeed or     *)
(* fail nondeterministically.                                              *)
(***************************************************************************)
EXTENDS Integers, Sequences, FiniteSets, TLC

VARIABLES
    build,      \* which revision of the class is running
    player,     \* the fields of the LibmediaPlayer object
    eng,        \* the engine instance this._avplayer refers to
    dom,        \* the document: player dialogs attached to it
    stack,      \* the async call stack of the operation in flight
    obs,        \* what the operation in flight has done so far (history)
    hist,       \* what the host has seen of earlier operations (history)
    probe       \* inputs and result of a direct call of the index mapper

vars == <<build, player, eng, dom, stack, obs, hist, probe>>

Builds == {"plugin", "part000", "part001"}

(***************************************************************************)
(* Bounds of the model.                                                    *)
(***************************************************************************)
\* longest host stream list the mapper is probed with
MaxHost == 3
\* longest engine stream list the mapper is probed with
MaxLib == 3

(***************************************************************************)
(* JavaScript null / undefined where the code returns or stores it for an  *)
(* index or a stream id (ids and indices are >= -1 otherwise).             *)
(***************************************************************************)
NULL == -2

(***************************************************************************)
(* Streams.  A host stream is an entry of mediaSource.MediaStreams, an     *)
(* engine stream an entry of avplayer.getStreams().                        *)
(***************************************************************************)
HS(i, t, ext, lang, title, codec) ==
    [Index |-> i, Type |-> t, IsExternal |-> ext, Language |-> lang,
     Title |-> title, Codec |-> codec]

LS(id, idx, ct, lang, title, cid) ==
    [id |-> id, index |-> idx, codecType |-> ct, lang |-> lang,
     title |-> title, codecId |-> cid]

\* _getCodecName: codec id -> name, "codec_<id>" for an unknown id
getCodecName(codecId) ==
    CASE codecId = 86018 -> "aac"
      [] codecId = 86019 -> "ac3"
      [] codecId = 86056 -> "eac3"
      [] codecId = 86017 -> "mp3"
      [] codecId = 86028 -> "flac"
      [] codecId = 86076 -> "opus"
      [] codecId = 27 -> "h264"
      [] codecId = 173 -> "hevc"
      [] codecId = 225 -> "av1"
      [] OTHER -> "codec_other"

\* String.prototype.includes on the codec names that occur in the model
Includes(hay, needle) ==
    \/ needle = ""
    \/ needle = hay
    \/ hay = "eac3" /\ needle = "ac3"
    \/ hay = "codec_other" /\ needle = "codec"

\* Array.prototype.findIndex, 1-based; 0 when no element passes the test
FindIndex(seq, Test(_)) ==
    IF \E i \in 1..Len(seq) : Test(seq[i])
    THEN CHOOSE i \in 1..Len(seq) :
             Test(seq[i]) /\ \A j \in 1..(i - 1) : ~Test(seq[j])
    ELSE 0

\* Array.prototype.filter
Filter(seq, Test(_)) == SelectSeq(seq, Test)

\* insertion of one stream into a list sorted by Index, after its equals
RECURSIVE InsertByIndex(_, _)
InsertByIndex(s, sorted) ==
    IF sorted = <<>> THEN <<s>>
    ELSE IF s.Index < Head(sorted).Index THEN <<s>> \o sorted
         ELSE <<Head(sorted)>> \o InsertByIndex(s, Tail(sorted))

\* .sort((a, b) => a.Index - b.Index): ascending by Index, stable
RECURSIVE SortByIndex(_)
SortByIndex(seq) ==
    IF seq = <<>> THEN <<>>
    ELSE InsertByIndex(seq[Len(seq)], SortByIndex(SubSeq(seq, 1, Len(seq) - 1)))

HostType(kind) == IF kind = "audio" THEN "Audio" ELSE "Subtitle"

\* the embedded host streams of a kind in ascending Index order
EmbeddedOfKind(host, kind) ==
    SortByIndex(Filter(host, LAMBDA s : s.Type = HostType(kind) /\ ~s.IsExternal))

\* the engine streams whose codec type is the kind, in enumeration order
LibOfKind(lib, kind) == Filter(lib, LAMBDA s : s.codecType = kind)

\* the metadata fallback of plugin.js and part_000: first engine stream of
\* the kind that matches by language, or by title, or by codec name
MetadataMatch(jf, libStreams) ==
    FindIndex(libStreams, LAMBDA s :
        \/ jf.Language # "" /\ s.lang = jf.Language
        \/ jf.Title # "" /\ s.title = jf.Title
        \/ jf.Codec # "" /\ s.codecId # 0
           /\ Includes(getCodecName(s.codecId), jf.Codec))

\* variant that counts the external host streams in the position
MapByPositionWithExternal(host, lib, jfIndex, kind) ==
    LET libStreams == LibOfKind(lib, kind)
        jfOfType   == SortByIndex(Filter(host, LAMBDA s : s.Type = HostType(kind)))
        found      == FindIndex(host, LAMBDA s :
                          s.Index = jfIndex /\ s.Type = HostType(kind))
        pos        == FindIndex(jfOfType, LAMBDA s : s.Index = jfIndex)
    IN  IF found = 0 THEN NULL
        ELSE IF pos >= 1 /\ pos <= Len(libStreams) THEN libStreams[pos].id
        ELSE LET m == MetadataMatch(host[found], libStreams)
             IN  IF m = 0 THEN NULL ELSE libStreams[m].id

\* plugin.js and part_000 after the stream lookup: position, then metadata
MapByPosition(host, lib, jfIndex, kind) ==
    LET libStreams == LibOfKind(lib, kind)
        jfOfType   == EmbeddedOfKind(host, kind)
        found      == FindIndex(host, LAMBDA s :
                          s.Index = jfIndex /\ s.Type = HostType(kind))
        pos        == FindIndex(jfOfType, LAMBDA s : s.Index = jfIndex)
    IN  IF found = 0 THEN NULL
        ELSE IF pos >= 1 /\ pos <= Len(libStreams) THEN libStreams[pos].id
        ELSE LET m == MetadataMatch(host[found], libStreams)
             IN  IF m = 0 THEN NULL ELSE libStreams[m].id

\* part_001 after the stream lookup: container index, then language/title
MapByContainerIndex(host, lib, jfIndex, kind) ==
    LET found == FindIndex(host, LAMBDA s :
                     s.Index = jfIndex /\ s.Type = HostType(kind))
    IN  IF found = 0 THEN NULL
        ELSE LET jf == host[found]
                 byIndex == FindIndex(lib, LAMBDA s : s.index = jf.Index)
                 byMeta  == FindIndex(lib, LAMBDA s :
                                \/ jf.Language # "" /\ s.lang = jf.Language
                                \/ jf.Title # "" /\ s.title = jf.Title)
             IN  IF byIndex # 0 THEN lib[byIndex].id
                 ELSE IF byMeta # 0 THEN lib[byMeta].id
                 ELSE NULL

(***************************************************************************)
(* _mapJellyfinStreamIndexToLibId(jfIndex, kind) of revision b, on the     *)
(* host streams, the engine's streams and the external-subtitle map        *)
(* (a function host index -> engine id).  plugin.js resolves the audio     *)
(* kind only.                                                              *)
(***************************************************************************)
mapJellyfinStreamIndexToLibId(b, host, lib, subMap, jfIndex, kind) ==
    CASE b = "plugin" ->
            IF kind = "audio" THEN MapByPosition(host, lib, jfIndex, kind)
            ELSE NULL
      [] b = "part000" ->
            IF kind = "subtitle" /\ jfIndex \in DOMAIN subMap
            THEN subMap[jfIndex]
            ELSE MapByPosition(host, lib, jfIndex, kind)
      [] OTHER ->
            IF kind = "subtitle" /\ jfIndex \in DOMAIN subMap
            THEN subMap[jfIndex]
            ELSE MapByContainerIndex(host, lib, jfIndex, kind)

(***************************************************************************)
(* Media sources.  Every play() of the model plays one of two files.  Both *)
(* declare the same host streams; they differ in what the engine           *)
(* enumerates for them in each pipeline.                                   *)
(*   file 1: both pipelines enumerate every embedded stream, same ids;     *)
(*   file 2: the managed-source pipeline exposes one audio stream only     *)
(*           (the Japanese one) and the raw-stream pipeline enumerates     *)
(*           all of them under other ids.                                  *)
(***************************************************************************)
HostStreams ==
    << HS(0, "Video", FALSE, "", "", "h264"),
       HS(1, "Audio", FALSE, "eng", "", "aac"),
       HS(2, "Audio", FALSE, "jpn", "", "aac"),
       HS(3, "Subtitle", FALSE, "eng", "", "subrip"),
       HS(4, "Subtitle", TRUE, "jpn", "signs", "ass") >>

\* options.mediaSource.MediaStreams of the file with url u (none for no file)
ScnHost(u) == IF u \in {1, 2} THEN HostStreams ELSE <<>>

\* what an engine in pipeline mode enumerates after loading url u
BaseStreams(u, mode) ==
    CASE u = 1 ->
            << LS(0, 0, "video", "", "", 27), LS(1, 1, "audio", "eng", "", 86018),
               LS(2, 2, "audio", "jpn", "", 86018), LS(3, 3, "subtitle", "eng", "", 0) >>
      [] u = 2 /\ mode = "mse" ->
            << LS(0, 0, "video", "", "", 27), LS(1, 2, "audio", "jpn", "", 86018) >>
      [] u = 2 /\ mode = "ms" ->
            << LS(10, 0, "video", "", "", 27), LS(11, 1, "audio", "eng", "", 86018),
               LS(12, 2, "audio", "jpn", "", 86018), LS(13, 3, "subtitle", "eng", "", 0) >>
      [] OTHER -> <<>>

\* the stream an engine adds when it ingests the external subtitle with
\* host index i: a new id, the title and language the adapter passed
ExtStream(i) ==
    LET k == FindIndex(HostStreams, LAMBDA s : s.Index = i)
    IN  LS(20 + i, NULL, "subtitle", HostStreams[k].Language, HostStreams[k].Title, 0)

RECURSIVE ExtStreams(_)
ExtStreams(ext) ==
    IF ext = <<>> THEN <<>> ELSE <<ExtStream(Head(ext))>> \o ExtStreams(Tail(ext))

(***************************************************************************)
(* Play options: the file (its url is the file number), the start          *)
(* position in ticks, the default audio and subtitle host indices.         *)
(***************************************************************************)
Opt(u, start, defA, defS) ==
    [url |-> u, playerStartPositionTicks |-> start,
     DefaultAudioStreamIndex |-> defA, DefaultSubtitleStreamIndex |-> defS]

NoOptions == Opt(NULL, 0, NULL, NULL)

PlayOptions ==
    { Opt(1, 0, NULL, NULL), Opt(1, 25000, 2, 3), Opt(2, 0, NULL, NULL),
      Opt(2, 0, 2, 4) }

\* host indices the host asks for: valid ones and one no stream has
AudioIndices == {1, 2, 9}
SubtitleIndices == {-1, 3, 4, 9}

\* the position the engine reports once playback has advanced (ms)
PosMs == 7

\* Math.floor((ticks || 0) / 10000): host ticks to engine milliseconds
\* variant that rounds to the nearest millisecond
TicksToMsRounded(ticks) == ((IF ticks = NULL THEN 0 ELSE ticks) + 5000) \div 10000

TicksToMs(ticks) == (IF ticks = NULL THEN 0 ELSE ticks) \div 10000

(***************************************************************************)
(* The engine instance (window.AVPlayer).  st: "none" no instance yet,     *)
(* "new" constructed, "loaded", "failed" (load rejected), "dead"           *)
(* (destroyed).  ext: the external subtitles it ingested, in order.        *)
(* video: it renders into a <video> element of its own (avplayer.video).   *)
(***************************************************************************)
NewEngine(mode) ==
    [mode |-> mode, st |-> "new", src |-> NULL, selA |-> NULL, selS |-> NULL,
     subOn |-> FALSE, pos |-> 0, ext |-> <<>>, video |-> FALSE]

NoEngine == [NewEngine("mse") EXCEPT !.st = "none"]

\* avplayer.getStreams()
EngStreams(e) ==
    IF e.st = "loaded" THEN BaseStreams(e.src, e.mode) \o ExtStreams(e.ext)
    ELSE <<>>

\* the engine's own choice of audio stream after a load: the first one
FirstAudio(lib) ==
    LET a == LibOfKind(lib, "audio") IN IF a = <<>> THEN NULL ELSE a[1].id

\* avplayer.load(url) resolved
EngLoaded(e, u, video) ==
    [e EXCEPT !.st = "loaded", !.src = u, !.pos = 0, !.video = video,
              !.selA = FirstAudio(BaseStreams(u, e.mode)), !.selS = NULL]

\* avplayer.destroy() resolved
EngDestroyed(e) ==
    [e EXCEPT !.st = "dead", !.selA = NULL, !.selS = NULL, !.pos = 0,
              !.video = FALSE, !.ext = <<>>]

\* the ids of the engine's streams of a kind
IdsOfKind(e, kind) ==
    LET l == LibOfKind(EngStreams(e), kind) IN {l[i].id : i \in 1..Len(l)}

(***************************************************************************)
(* The world an operation works on: the object, the engine, the document,  *)
(* the call stack and the history of the operation in flight.              *)
(***************************************************************************)
World == [p |-> player, e |-> eng, d |-> dom, s |-> stack, o |-> obs]

Commit(w) ==
    /\ player' = w.p
    /\ eng' = w.e
    /\ dom' = w.d
    /\ stack' = w.s
    /\ obs' = w.o

EmptyMap == [i \in {} |-> NULL]

InitPlayer ==
    [avplayer |-> FALSE, opts |-> NoOptions, prefersMSE |-> TRUE,
     currentSrc |-> NULL, videoDialog |-> "none", container |-> "none",
     subMap |-> EmptyMap, extInfo |-> {}, customTrackIndex |-> -1,
     boundPopState |-> FALSE, osdHandler |-> FALSE, isFetching |-> FALSE,
     paused |-> FALSE, clickUnbind |-> FALSE, clickStale |-> FALSE]

ObsIdle == [loads |-> <<>>, built |-> <<>>, notes |-> <<>>, calls |-> <<>>]

\* a frame of the call stack: the function, the await it is suspended at
\* ("ret" / "thr" once it has returned / thrown), its argument and locals,
\* and the history of this invocation: sel the selection calls it issued,
\* first the answer to the first of them, pref and built0 the pipeline flag
\* and the number of engines built when it was entered, live whether the
\* engine held the source then, held the host indices the getters reported
\* then, tag how it went on
Frame(fn, pc, arg) ==
    [fn |-> fn, pc |-> pc, arg |-> arg, libId |-> NULL, posMs |-> 0,
     seekArg |-> NULL, ret |-> 0, seen |-> {}, sel |-> 0, first |-> "none",
     pref |-> TRUE, built0 |-> 0, live |-> FALSE,
     held |-> [a |-> NULL, s |-> NULL], tag |-> ""]

Top(w) == w.s[Len(w.s)]
Push(w, f) == [w EXCEPT !.s = Append(@, f)]
Pop(w) == [w EXCEPT !.s = SubSeq(@, 1, Len(@) - 1)]
SetTop(w, f) == [w EXCEPT !.s[Len(w.s)] = f]
Finished(f) == f.pc \in {"ret", "thr"}

\* Events.trigger(this, name, ...) as the host sees it
Note(w, n, v) == [w EXCEPT !.o.notes = Append(@, [n |-> n, v |-> v])]

\* a call in the order of execution: c the method, r its argument or its
\* outcome, at the number of notifications the host had seen before it
Call(w, c, r) ==
    [w EXCEPT !.o.calls = Append(@, [c |-> c, r |-> r, at |-> Len(w.o.notes)])]

\* options.mediaSource.MediaStreams of the current play options
Host(p) == ScnHost(p.opts.url)

(***************************************************************************)
(* The mapper and the getters as methods of the object.  With no engine    *)
(* instance this._avplayer.getStreams throws and the catch returns.        *)
(***************************************************************************)
MapIndex(b, p, e, jfIndex, kind) ==
    IF ~p.avplayer THEN NULL
    ELSE mapJellyfinStreamIndexToLibId(b, Host(p), EngStreams(e), p.subMap,
                                       jfIndex, kind)

\* index of the host stream at the position of the engine's current stream
InverseByPosition(host, lib, current, kind) ==
    LET libStreams == LibOfKind(lib, kind)
        jfOfType   == EmbeddedOfKind(host, kind)
        pos        == FindIndex(libStreams, LAMBDA s : s.id = current)
    IN  IF pos >= 1 /\ pos <= Len(jfOfType) THEN jfOfType[pos].Index ELSE NULL

\* part_001: the host stream whose Index is the current stream's index
InverseByContainerIndex(host, lib, current, kind) ==
    LET c == FindIndex(lib, LAMBDA s : s.id = current)
        m == IF c = 0 THEN 0
             ELSE FindIndex(host, LAMBDA s :
                      s.Type = HostType(kind) /\ s.Index = lib[c].index)
    IN  IF m = 0 THEN NULL ELSE host[m].Index

getAudioStreamIndex(b, p, e) ==
    IF ~p.avplayer \/ e.selA = NULL THEN NULL
    ELSE IF b = "part001"
         THEN InverseByContainerIndex(Host(p), EngStreams(e), e.selA, "audio")
         ELSE InverseByPosition(Host(p), EngStreams(e), e.selA, "audio")

getSubtitleStreamIndex(b, p, e) ==
    CASE b = "plugin" -> p.customTrackIndex
      [] b = "part000" ->
            IF ~p.avplayer \/ e.selS = NULL THEN -1
            ELSE IF \E i \in DOMAIN p.subMap : p.subMap[i] = e.selS
                 THEN CHOOSE i \in DOMAIN p.subMap : p.subMap[i] = e.selS
                 ELSE LET r == InverseByPosition(Host(p), EngStreams(e),
                                                 e.selS, "subtitle")
                      IN  IF r = NULL THEN -1 ELSE r
      [] OTHER ->
            IF ~p.avplayer \/ e.selS = NULL THEN -1
            ELSE LET r == InverseByContainerIndex(Host(p), EngStreams(e),
                                                  e.selS, "subtitle")
                 IN  IF r = NULL THEN -1 ELSE r


(***************************************************************************)
(* What the engine may answer.  A load of no url fails; a selection of an  *)
(* id the instance does not enumerate for the kind is never accepted; an   *)
(* engine that is not loaded ingests nothing.                              *)
(***************************************************************************)
LoadOutcomes(u) == IF u = NULL THEN {"fail"} ELSE {"ok", "fail"}

SelectOutcomes(e, id, kind) ==
    IF id \in IdsOfKind(e, kind) THEN {"ok", "unsupported", "error"}
    ELSE {"unsupported", "error"}

IngestOutcomes(e) == IF e.st = "loaded" THEN {"ok", "fail"} ELSE {"fail"}

\* avplayer.selectAudio(id) / avplayer.selectSubtitle(id) resolved
Selected(e, kind, id) ==
    IF kind = "audio" THEN [e EXCEPT !.selA = id] ELSE [e EXCEPT !.selS = id]

KindOf(fn) == IF fn = "setAudio" THEN "audio" ELSE "subtitle"

(***************************************************************************)
(* plugin.js: subtitles are rendered by the adapter on a <video> element.  *)
(***************************************************************************)
getVideoElement(w) ==
    \/ w.p.avplayer /\ w.e.video
    \/ w.p.container # "none" /\ w.d.video

\* plugin.js setSubtitleStreamIndex: synchronous up to the assignment of
\* _customTrackIndex in _setTrackForDisplay
setSubtitleDisplay(w, index) ==
    LET w0 == Call(w, "setSubtitle", index)
    IN  IF ~getVideoElement(w) \/ w.p.opts.url = NULL THEN w0
        ELSE IF index \in {NULL, -1} THEN [w0 EXCEPT !.p.customTrackIndex = -1]
        ELSE IF FindIndex(Host(w.p), LAMBDA t : t.Type = "Subtitle" /\ t.Index = index) = 0
             THEN w0
             ELSE [w0 EXCEPT !.p.customTrackIndex = index]

reapplySubtitlesAfterPipelineChange(b, w) ==
    IF b # "plugin" \/ w.p.opts.url = NULL THEN w
    ELSE IF w.p.customTrackIndex >= 0
         THEN setSubtitleDisplay(w, w.p.customTrackIndex)
         ELSE IF w.p.opts.DefaultSubtitleStreamIndex # NULL
                 /\ w.p.opts.DefaultSubtitleStreamIndex >= 0
              THEN setSubtitleDisplay(w, w.p.opts.DefaultSubtitleStreamIndex)
              ELSE w

\* _bindEvents(), the listeners it adds to the container (plugin.js): the
\* click and dblclick listeners are added to this._container and
\* _clickUnbind is set to the closure that removes this pair; a pair that
\* an earlier call added to the same element is left without a closure
bindEvents(b, w, fresh) ==
    IF b # "plugin" THEN w
    ELSE [w EXCEPT !.p.clickStale = IF fresh THEN FALSE ELSE (@ \/ w.p.clickUnbind),
                   !.p.clickUnbind = TRUE]

(***************************************************************************)
(* Entering a function runs it up to its first await: the operators below  *)
(* return the world with the callee's frame pushed, suspended at that      *)
(* await or already finished.                                              *)
(***************************************************************************)
\* _switchToMediaStreamMode(url): suspended at the destroy of the old engine
EnterSwitch(w, u) ==
    Push(w, [Frame("switch", "destroy", u) EXCEPT
                !.held = [a |-> getAudioStreamIndex(build, w.p, w.e),
                          s |-> getSubtitleStreamIndex(build, w.p, w.e)]])

\* variant that switches whatever the pipeline flag says
EnterEnsureAlways(w) ==
    LET posMs == IF w.p.avplayer THEN w.e.pos ELSE 0
    IN  EnterSwitch(Push(w, [Frame("ensure", "switch", 0) EXCEPT !.posMs = posMs]),
                    w.p.currentSrc)

\* _ensureMediaStreamFallback()
EnterEnsure(w) ==
    IF ~w.p.prefersMSE THEN Push(w, Frame("ensure", "ret", 0))
    ELSE LET posMs == IF w.p.avplayer THEN w.e.pos ELSE 0
         IN  EnterSwitch(Push(w, [Frame("ensure", "switch", 0) EXCEPT !.posMs = posMs]),
                         w.p.currentSrc)

\* variant that issues the selection call with whatever the mapper returned
SelectFromUnchecked(b, w, f) ==
    LET kind  == KindOf(f.fn)
        libId == MapIndex(b, w.p, w.e, f.arg, kind)
    IN  Push(IF kind = "subtitle" THEN [w EXCEPT !.e.subOn = TRUE] ELSE w,
             [f EXCEPT !.pc = "sel1", !.libId = libId, !.sel = @ + 1,
                       !.tag = IF libId = NULL THEN "unmapped" ELSE @])

\* the mapping and the first selection call of setAudioStreamIndex /
\* setSubtitleStreamIndex, for the invocation with frame f
SelectFrom(b, w, f) ==
    LET kind  == KindOf(f.fn)
        libId == MapIndex(b, w.p, w.e, f.arg, kind)
    IN  IF libId = NULL
        THEN Push(w, [f EXCEPT !.pc = "ret", !.tag = "unmapped"])
        ELSE Push(IF kind = "subtitle" THEN [w EXCEPT !.e.subOn = TRUE] ELSE w,
                  [f EXCEPT !.pc = "sel1", !.libId = libId, !.sel = @ + 1])

\* setAudioStreamIndex(index) of plugin.js, part_000 and part_001
EnterSetAudio(b, w, index) ==
    LET f == [Frame("setAudio", "ret", index) EXCEPT
                 !.built0 = Len(w.o.built), !.pref = w.p.prefersMSE,
                 !.live = (w.p.avplayer /\ w.e.st = "loaded"),
                 !.held = [a |-> getAudioStreamIndex(b, w.p, w.e),
                           s |-> getSubtitleStreamIndex(b, w.p, w.e)]]
        w0 == Call(w, "setAudio", index)
    IN  IF ~w0.p.avplayer THEN Push(w0, f) ELSE SelectFrom(b, w0, f)

\* variant that ingests an external subtitle on every selection of it
EnterSetSubtitleAlwaysLoads(b, w, index) ==
    LET f == [Frame("setSubtitle", "ret", index) EXCEPT
                 !.built0 = Len(w.o.built), !.pref = w.p.prefersMSE,
                 !.live = (w.p.avplayer /\ w.e.st = "loaded"),
                 !.held = [a |-> getAudioStreamIndex(b, w.p, w.e),
                           s |-> getSubtitleStreamIndex(b, w.p, w.e)]]
        l == EngStreams(w.e)
        w0 == Call(w, "setSubtitle", index)
    IN  IF b = "plugin" THEN Push(setSubtitleDisplay(w, index), f)
        ELSE IF ~w0.p.avplayer THEN Push(w0, f)
        ELSE IF index \in {NULL, -1} THEN Push([w0 EXCEPT !.e.subOn = FALSE], f)
        ELSE IF b = "part000" /\ index \in w0.p.extInfo
             THEN Push(Push(w0, [f EXCEPT !.pc = "ext"]),
                       [Frame("loadExternalSubtitle", "load", index)
                           EXCEPT !.seen = {l[i].id : i \in 1..Len(l)}])
             ELSE SelectFrom(b, w0, f)

\* setSubtitleStreamIndex(index): plugin.js renders the track itself,
\* part_000 ingests an external subtitle first, part_001 maps and selects
EnterSetSubtitle(b, w, index) ==
    LET f == [Frame("setSubtitle", "ret", index) EXCEPT
                 !.built0 = Len(w.o.built), !.pref = w.p.prefersMSE,
                 !.live = (w.p.avplayer /\ w.e.st = "loaded"),
                 !.held = [a |-> getAudioStreamIndex(b, w.p, w.e),
                           s |-> getSubtitleStreamIndex(b, w.p, w.e)]]
        l == EngStreams(w.e)
        w0 == Call(w, "setSubtitle", index)
    IN  IF b = "plugin" THEN Push(setSubtitleDisplay(w, index), f)
        ELSE IF ~w0.p.avplayer THEN Push(w0, f)
        ELSE IF index \in {NULL, -1} THEN Push([w0 EXCEPT !.e.subOn = FALSE], f)
        ELSE IF b = "part000" /\ index \in w0.p.extInfo /\ index \notin DOMAIN w0.p.subMap
             THEN Push(Push(w0, [f EXCEPT !.pc = "ext"]),
                       [Frame("loadExternalSubtitle", "load", index)
                           EXCEPT !.seen = {l[i].id : i \in 1..Len(l)}])
             ELSE SelectFrom(b, w0, f)

(***************************************************************************)
(* The steps of the selection operations: each resumes one await.          *)
(***************************************************************************)
\* variant that falls back after any failure of the selection
SelectFirstFallsBackOnAnyError ==
    /\ stack # <<>>
    /\ Top(World).fn \in {"setAudio", "setSubtitle"}
    /\ Top(World).pc = "sel1"
    /\ \E r \in SelectOutcomes(eng, Top(World).libId, KindOf(Top(World).fn)) :
          LET f  == [Top(World) EXCEPT !.first = r]
              w0 == Call(Pop(World), "select", r)
          IN  Commit(
                CASE r = "ok" ->
                       Push([w0 EXCEPT !.e = Selected(@, KindOf(f.fn), f.libId)],
                            [f EXCEPT !.pc = "ret"])
                  [] r # "ok" /\ build = "part001" ->
                       Push(w0, [f EXCEPT !.pc = "thr"])
                  [] OTHER ->
                       EnterEnsure(Push(w0, [f EXCEPT !.pc = "ensure"])))
    /\ UNCHANGED <<build, hist, probe>>

\* the first selectAudio / selectSubtitle settles
SelectFirst ==
    /\ stack # <<>>
    /\ Top(World).fn \in {"setAudio", "setSubtitle"}
    /\ Top(World).pc = "sel1"
    /\ \E r \in SelectOutcomes(eng, Top(World).libId, KindOf(Top(World).fn)) :
          LET f  == [Top(World) EXCEPT !.first = r]
              w0 == Call(Pop(World), "select", r)
          IN  Commit(
                CASE r = "ok" ->
                       Push([w0 EXCEPT !.e = Selected(@, KindOf(f.fn), f.libId)],
                            [f EXCEPT !.pc = "ret"])
                  [] r # "ok" /\ build = "part001" ->
                       Push(w0, [f EXCEPT !.pc = "thr"])
                  [] r = "error" /\ build # "part001" ->
                       Push(w0, [f EXCEPT !.pc = "ret"])
                  [] OTHER ->
                       EnterEnsure(Push(w0, [f EXCEPT !.pc = "ensure"])))
    /\ UNCHANGED <<build, hist, probe>>

\* variant that rejects when the fallback failed
SelectEnsuredRethrows ==
    /\ Len(stack) >= 2
    /\ Top(World).fn = "ensure" /\ Finished(Top(World))
    /\ LET en == Top(World)
           f  == Top(Pop(World))
           w1 == Pop(Pop(World))
       IN  /\ f.pc = "ensure"
           /\ Commit(
                CASE en.pc = "thr" -> Push(w1, [f EXCEPT !.pc = "thr", !.tag = "fallback failed"])
                  [] en.pc = "ret" /\ en.ret = 0 ->
                       Push(w1, [f EXCEPT !.pc = "ret", !.tag = "not switched"])
                  [] OTHER ->
                       Push(w1, [f EXCEPT !.pc = "sel2", !.sel = @ + 1, !.tag = "switched"]))
    /\ UNCHANGED <<build, hist, probe>>

\* _ensureMediaStreamFallback() has settled in a selection operation
SelectEnsured ==
    /\ Len(stack) >= 2
    /\ Top(World).fn = "ensure" /\ Finished(Top(World))
    /\ LET en == Top(World)
           f  == Top(Pop(World))
           w1 == Pop(Pop(World))
       IN  /\ f.pc = "ensure"
           /\ Commit(
                CASE en.pc = "thr" -> Push(w1, [f EXCEPT !.pc = "ret", !.tag = "fallback failed"])
                  [] en.pc = "ret" /\ en.ret = 0 ->
                       Push(w1, [f EXCEPT !.pc = "ret", !.tag = "not switched"])
                  [] OTHER ->
                       Push(w1, [f EXCEPT !.pc = "sel2", !.sel = @ + 1, !.tag = "switched"]))
    /\ UNCHANGED <<build, hist, probe>>

\* the retried selection settles; its failure is logged only
SelectRetry ==
    /\ stack # <<>>
    /\ Top(World).fn \in {"setAudio", "setSubtitle"}
    /\ Top(World).pc = "sel2"
    /\ \E r \in SelectOutcomes(eng, Top(World).libId, KindOf(Top(World).fn)) :
          LET f  == Top(World)
              w0 == Call(Pop(World), "select", r)
          IN  Commit(Push(IF r = "ok"
                          THEN [w0 EXCEPT !.e = Selected(@, KindOf(f.fn), f.libId)]
                          ELSE w0,
                          [f EXCEPT !.pc = "ret",
                                    !.tag = IF r = "ok" THEN "retry ok" ELSE "retry failed"]))
    /\ UNCHANGED <<build, hist, probe>>

\* variant that maps the index to the first subtitle stream enumerated
LoadExternalSubtitleMapsFirst ==
    /\ stack # <<>>
    /\ Top(World).fn = "loadExternalSubtitle" /\ Top(World).pc = "load"
    /\ \E r \in IngestOutcomes(eng) :
          LET f   == Top(World)
              w0  == Pop(World)
              e1  == [eng EXCEPT !.ext = Append(@, f.arg)]
              sub == LibOfKind(EngStreams(e1), "subtitle")
              m   == w0.p.subMap
          IN  Commit(
                IF r = "fail" THEN Push(w0, [f EXCEPT !.pc = "thr"])
                ELSE Push([w0 EXCEPT !.e = e1,
                                     !.p.subMap =
                                        [i \in DOMAIN m \cup {f.arg} |->
                                            IF i = f.arg THEN sub[1].id ELSE m[i]]],
                          [f EXCEPT !.pc = "ret"]))
    /\ UNCHANGED <<build, hist, probe>>

\* part_000 _loadExternalSubtitle: avplayer.loadExternalSubtitle settles
LoadExternalSubtitle ==
    /\ stack # <<>>
    /\ Top(World).fn = "loadExternalSubtitle" /\ Top(World).pc = "load"
    /\ \E r \in IngestOutcomes(eng) :
          LET f   == Top(World)
              w0  == Pop(World)
              e1  == [eng EXCEPT !.ext = Append(@, f.arg)]
              sub == LibOfKind(EngStreams(e1), "subtitle")
              k   == FindIndex(sub, LAMBDA s : s.id \notin f.seen)
              m   == w0.p.subMap
          IN  Commit(
                IF r = "fail" THEN Push(w0, [f EXCEPT !.pc = "thr"])
                ELSE Push([w0 EXCEPT !.e = e1,
                                     !.p.subMap =
                                        IF k = 0 THEN m
                                        ELSE [i \in DOMAIN m \cup {f.arg} |->
                                                IF i = f.arg THEN sub[k].id ELSE m[i]]],
                          [f EXCEPT !.pc = "ret"]))
    /\ UNCHANGED <<build, hist, probe>>

\* part_000 setSubtitleStreamIndex after _loadExternalSubtitle settled
SelectAfterExternal ==
    /\ Len(stack) >= 2
    /\ Top(World).fn = "loadExternalSubtitle" /\ Finished(Top(World))
    /\ LET x  == Top(World)
           f  == Top(Pop(World))
           w1 == Pop(Pop(World))
       IN  Commit(IF x.pc = "thr"
                  THEN Push(w1, [f EXCEPT !.pc = "ret", !.tag = "external failed"])
                  ELSE SelectFrom(build, w1, f))
    /\ UNCHANGED <<build, hist, probe>>

(***************************************************************************)
(* _switchToMediaStreamMode and _ensureMediaStreamFallback.                *)
(***************************************************************************)
\* variant that constructs and binds the new engine before the old one is
\* destroyed
SwitchRebuildBeforeDestroy ==
    /\ stack # <<>>
    /\ Top(World).fn = "switch" /\ Top(World).pc = "destroy"
    /\ \E r \in IF player.avplayer THEN {"ok", "fail"} ELSE {"none"} :
          LET f  == Top(World)
              w0 == Pop(World)
              w1 == Call([w0 EXCEPT
                            !.d.dialogs = IF w0.p.videoDialog = "attached" THEN @ ELSE @ + 1,
                            !.d.video = TRUE,
                            !.p.videoDialog = "attached",
                            !.p.container = "attached",
                            !.p.avplayer = TRUE,
                            !.e = NewEngine("ms"),
                            !.o.built = Append(@, "ms")],
                         "new", "ms")
              w2 == Call(bindEvents(build, w1, w0.p.container # "attached"), "bind", "ms")
              w3 == IF r = "none" THEN w2 ELSE Call(w2, "destroy", r)
          IN  Commit(Push(w3, [f EXCEPT !.pc = "load"]))
    /\ UNCHANGED <<build, hist, probe>>

\* the old engine's destroy settles (its failure is swallowed); the dialog,
\* the container and the <video> are rebuilt, the raw-stream engine is
\* constructed, the events are bound to it and it is asked to load
SwitchRebuild ==
    /\ stack # <<>>
    /\ Top(World).fn = "switch" /\ Top(World).pc = "destroy"
    /\ \E r \in IF player.avplayer THEN {"ok", "fail"} ELSE {"none"} :
          LET f  == Top(World)
              w0 == IF r = "none" THEN Pop(World) ELSE Call(Pop(World), "destroy", r)
              w1 == Call([w0 EXCEPT
                            !.d.dialogs = IF w0.p.videoDialog = "attached" THEN @ ELSE @ + 1,
                            !.d.video = TRUE,
                            !.p.videoDialog = "attached",
                            !.p.container = "attached",
                            !.p.avplayer = TRUE,
                            !.e = NewEngine("ms"),
                            !.o.built = Append(@, "ms")],
                         "new", "ms")
              w2 == Call(bindEvents(build, w1, w0.p.container # "attached"), "bind", "ms")
          IN  Commit(Push(w2, [f EXCEPT !.pc = "load"]))
    /\ UNCHANGED <<build, hist, probe>>

\* the raw-stream load settles: on success the flag flips and play is issued
SwitchLoaded ==
    /\ stack # <<>>
    /\ Top(World).fn = "switch" /\ Top(World).pc = "load"
    /\ \E r \in LoadOutcomes(Top(World).arg) :
          LET f  == Top(World)
              by == IF Top(Pop(World)).fn = "play" THEN "fallback" ELSE "selection"
              w0 == [Call(Pop(World), "load", r) EXCEPT
                        !.o.loads = Append(@, [mode |-> eng.mode, r |-> r, by |-> by])]
          IN  Commit(
                IF r = "ok"
                THEN Push([w0 EXCEPT !.e = EngLoaded(@, f.arg, FALSE),
                                     !.p.prefersMSE = FALSE],
                          [f EXCEPT !.pc = "play"])
                ELSE Push([w0 EXCEPT !.e.st = "failed"], [f EXCEPT !.pc = "thr"]))
    /\ UNCHANGED <<build, hist, probe>>

\* variant that forgets the ingested external subtitles and announces a stop
SwitchPlayedForgetsMap ==
    /\ stack # <<>>
    /\ Top(World).fn = "switch" /\ Top(World).pc = "play"
    /\ LET f == Top(World)
           w == reapplySubtitlesAfterPipelineChange(build, Pop(World))
       IN  Commit(Push(Note([w EXCEPT !.p.subMap = EmptyMap], "stopped", w.p.currentSrc),
                       [f EXCEPT !.pc = "ret"]))
    /\ UNCHANGED <<build, hist, probe>>

\* the play of the new engine settles (swallowed); subtitles are reapplied
SwitchPlayed ==
    /\ stack # <<>>
    /\ Top(World).fn = "switch" /\ Top(World).pc = "play"
    /\ LET f == Top(World)
       IN  Commit(Push(reapplySubtitlesAfterPipelineChange(build, Pop(World)),
                       [f EXCEPT !.pc = "ret"]))
    /\ UNCHANGED <<build, hist, probe>>

\* variant that resumes without seeking to the recorded position
EnsureSwitchedNoSeek ==
    /\ Len(stack) >= 2
    /\ Top(World).fn = "switch" /\ Finished(Top(World))
    /\ LET sw == Top(World)
           f  == Top(Pop(World))
           w1 == Pop(Pop(World))
       IN  /\ f.fn = "ensure" /\ f.pc = "switch"
           /\ Commit(IF sw.pc = "thr" THEN Push(w1, [f EXCEPT !.pc = "thr"])
                     ELSE Push(w1, [f EXCEPT !.pc = "play"]))
    /\ UNCHANGED <<build, hist, probe>>

\* _ensureMediaStreamFallback after the switch settled: the recorded
\* position is sought when it is positive, else play is issued
EnsureSwitched ==
    /\ Len(stack) >= 2
    /\ Top(World).fn = "switch" /\ Finished(Top(World))
    /\ LET sw == Top(World)
           f  == Top(Pop(World))
           w1 == Pop(Pop(World))
       IN  /\ f.fn = "ensure" /\ f.pc = "switch"
           /\ Commit(
                CASE sw.pc = "thr" -> Push(w1, [f EXCEPT !.pc = "thr"])
                  [] sw.pc = "ret" /\ f.posMs > 0 ->
                       Push(w1, [f EXCEPT !.pc = "seek", !.seekArg = f.posMs])
                  [] OTHER -> Push(w1, [f EXCEPT !.pc = "play"]))
    /\ UNCHANGED <<build, hist, probe>>

\* the seek to the recorded position settles (its failure is swallowed)
EnsureSeeked ==
    /\ stack # <<>>
    /\ Top(World).fn = "ensure" /\ Top(World).pc = "seek"
    /\ \E r \in {"ok", "fail"} :
          LET f  == Top(World)
              w0 == Pop(World)
          IN  Commit(Push(IF r = "ok" THEN [w0 EXCEPT !.e.pos = f.seekArg] ELSE w0,
                          [f EXCEPT !.pc = "play", !.tag = r]))
    /\ UNCHANGED <<build, hist, probe>>

\* variant that prefers the managed-source pipeline again afterwards
EnsurePlayedPrefersMSE ==
    /\ stack # <<>>
    /\ Top(World).fn = "ensure" /\ Top(World).pc = "play"
    /\ LET f == Top(World)
           w == reapplySubtitlesAfterPipelineChange(build, Pop(World))
       IN  Commit(Push([w EXCEPT !.p.prefersMSE = TRUE],
                       [f EXCEPT !.pc = "ret", !.ret = 1]))
    /\ UNCHANGED <<build, hist, probe>>

\* the play after the switch settles (swallowed); returns true
EnsurePlayed ==
    /\ stack # <<>>
    /\ Top(World).fn = "ensure" /\ Top(World).pc = "play"
    /\ LET f == Top(World)
       IN  Commit(Push(reapplySubtitlesAfterPipelineChange(build, Pop(World)),
                       [f EXCEPT !.pc = "ret", !.ret = 1]))
    /\ UNCHANGED <<build, hist, probe>>


(***************************************************************************)
(* play(options).                                                          *)
(***************************************************************************)
\* the catch of play(): the fetch indicator is cleared, the error is
\* signalled and rethrown
PlayCatch(w, f) ==
    Push(Note(Note([w EXCEPT !.p.isFetching = FALSE], "endFetch", 0), "error", 0),
         [f EXCEPT !.pc = "thr"])

\* after a successful load: volume, (part_000) registration of the external
\* subtitles, then the engine is asked to play
PlayAfterLoad(b, w, f) ==
    LET h  == Filter(Host(w.p), LAMBDA t : t.Type = "Subtitle" /\ t.IsExternal)
        w1 == Note(w, "volumechange", 0)
    IN  Push(IF b = "part000"
             THEN [w1 EXCEPT !.p.extInfo = {h[i].Index : i \in 1..Len(h)}]
             ELSE w1,
             [f EXCEPT !.pc = "play"])

\* the end of the try block and the popstate listener
PlayFinish(b, w, f) ==
    Push(Note([w EXCEPT !.p.osdHandler = TRUE, !.p.isFetching = FALSE,
                        !.p.boundPopState = IF b = "part001" THEN @ ELSE TRUE],
              "endFetch", 0),
         [f EXCEPT !.pc = "ret"])

\* the default subtitle: rendered at once (plugin.js) or awaited (part_000)
PlayDefaultSubtitle(b, w, f) ==
    LET defS == w.p.opts.DefaultSubtitleStreamIndex
    IN  IF defS = NULL THEN PlayFinish(b, w, f)
        ELSE IF b = "plugin" THEN PlayFinish(b, setSubtitleDisplay(w, defS), f)
        ELSE EnterSetSubtitle(b, Push(w, [f EXCEPT !.pc = "defSub"]), defS)

\* the default audio stream is awaited; part_001 does not await its
\* selections and is resumed by PlayDefaultsUnawaited
PlayDefaults(b, w, f) ==
    LET defA == w.p.opts.DefaultAudioStreamIndex
    IN  IF b = "part001" THEN Push(w, [f EXCEPT !.pc = "defaults"])
        ELSE IF defA = NULL THEN PlayDefaultSubtitle(b, w, f)
        ELSE EnterSetAudio(b, Push(w, [f EXCEPT !.pc = "defAudio"]), defA)

\* play(options) up to the load of the managed-source engine
PlayStart(o) ==
    /\ stack = <<>>
    /\ LET w0 == [World EXCEPT !.o = ObsIdle]
           w1 == [w0 EXCEPT
                    !.p.opts = o,
                    !.p.prefersMSE = IF build = "plugin" THEN TRUE ELSE @,
                    !.p.customTrackIndex = -1,
                    !.p.subMap = EmptyMap,
                    !.p.extInfo = {},
                    !.d.dialogs = IF @ = 0 THEN 1 ELSE @,
                    !.d.video = IF w0.d.dialogs = 0 THEN FALSE ELSE @,
                    !.p.videoDialog = "attached",
                    !.p.container = "attached",
                    !.p.avplayer = TRUE,
                    !.e = NewEngine("mse"),
                    !.o.built = <<"mse">>,
                    !.p.currentSrc = o.url,
                    !.p.paused = FALSE,
                    !.p.isFetching = TRUE]
           w2 == bindEvents(build, w1, w0.d.dialogs = 0)
       IN  Commit(Push(Note(w2, "beginFetch", 0), Frame("play", "load", o.url)))
    /\ hist' = [hist EXCEPT !.subOff = FALSE]
    /\ UNCHANGED <<build, probe>>

\* the managed-source load settles; its failure starts the fallback
\* (plugin.js, part_000) or rejects play (part_001)
PlayLoaded ==
    /\ stack # <<>>
    /\ Top(World).fn = "play" /\ Top(World).pc = "load"
    /\ \E r \in LoadOutcomes(Top(World).arg) :
       \E v \in IF build = "plugin" /\ r = "ok" THEN BOOLEAN ELSE {FALSE} :
          LET f  == Top(World)
              w0 == [Call(Pop(World), "load", r) EXCEPT
                        !.o.loads = Append(@, [mode |-> eng.mode, r |-> r, by |-> "play"])]
          IN  Commit(
                CASE r = "ok" -> PlayAfterLoad(build, [w0 EXCEPT !.e = EngLoaded(@, f.arg, v)], f)
                  [] r = "fail" /\ build = "part001" ->
                       PlayCatch([w0 EXCEPT !.e.st = "failed"], f)
                  [] OTHER ->
                       EnterSwitch(Push([w0 EXCEPT !.e.st = "failed"],
                                        [f EXCEPT !.pc = "fallback"]), f.arg))
    /\ UNCHANGED <<build, hist, probe>>

\* variant that goes on although the fallback load failed
PlayFallbackGoesOn ==
    /\ Len(stack) >= 2
    /\ Top(World).fn = "switch" /\ Finished(Top(World))
    /\ LET f  == Top(Pop(World))
           w1 == Pop(Pop(World))
       IN  /\ f.fn = "play" /\ f.pc = "fallback"
           /\ Commit(PlayAfterLoad(build, w1, f))
    /\ UNCHANGED <<build, hist, probe>>

\* the fallback switch of play() settled: play goes on, or rejects with
\* the primary error
PlayFallback ==
    /\ Len(stack) >= 2
    /\ Top(World).fn = "switch" /\ Finished(Top(World))
    /\ LET sw == Top(World)
           f  == Top(Pop(World))
           w1 == Pop(Pop(World))
       IN  /\ f.fn = "play" /\ f.pc = "fallback"
           /\ Commit(IF sw.pc = "thr" THEN PlayCatch(w1, f)
                     ELSE PlayAfterLoad(build, w1, f))
    /\ UNCHANGED <<build, hist, probe>>

\* variant that notifies itemstarted before the engine's play is awaited
PlayPlayedAnnouncesFirst ==
    /\ stack # <<>>
    /\ Top(World).fn = "play" /\ Top(World).pc = "play"
    /\ \E r \in {"ok", "benign", "fatal"} :
          LET f    == Top(World)
              w0   == Pop(World)
              w1   == IF build = "part001" THEN w0 ELSE Note(w0, "itemstarted", 0)
              w2   == reapplySubtitlesAfterPipelineChange(build, Call(w1, "play", r))
              tick == w0.p.opts.playerStartPositionTicks
          IN  Commit(
                CASE r = "fatal" -> PlayCatch(Call(w0, "play", r), f)
                  [] r # "fatal" /\ tick > 0 ->
                       Push(w2, [f EXCEPT !.pc = "seek", !.seekArg = TicksToMs(tick)])
                  [] OTHER -> PlayDefaults(build, w2, f))
    /\ UNCHANGED <<build, hist, probe>>

\* variant that rejects on every failure of the engine's play
PlayPlayedStrict ==
    /\ stack # <<>>
    /\ Top(World).fn = "play" /\ Top(World).pc = "play"
    /\ \E r \in {"ok", "benign", "fatal"} :
          LET f    == Top(World)
              w0   == Call(Pop(World), "play", r)
              w1   == reapplySubtitlesAfterPipelineChange(build, w0)
              w2   == IF build = "part001" THEN w1 ELSE Note(w1, "itemstarted", 0)
              tick == w0.p.opts.playerStartPositionTicks
          IN  Commit(
                CASE r # "ok" -> PlayCatch(w0, f)
                  [] r = "ok" /\ tick > 0 ->
                       Push(w2, [f EXCEPT !.pc = "seek", !.seekArg = TicksToMs(tick)])
                  [] OTHER -> PlayDefaults(build, w2, f))
    /\ UNCHANGED <<build, hist, probe>>

\* variant that goes on whatever the engine's play answered
PlayPlayedSwallowsAll ==
    /\ stack # <<>>
    /\ Top(World).fn = "play" /\ Top(World).pc = "play"
    /\ \E r \in {"ok", "benign", "fatal"} :
          LET f    == Top(World)
              w0   == Call(Pop(World), "play", r)
              w1   == reapplySubtitlesAfterPipelineChange(build, w0)
              w2   == IF build = "part001" THEN w1 ELSE Note(w1, "itemstarted", 0)
              tick == w0.p.opts.playerStartPositionTicks
          IN  Commit(
                IF tick > 0
                THEN Push(w2, [f EXCEPT !.pc = "seek", !.seekArg = TicksToMs(tick)])
                ELSE PlayDefaults(build, w2, f))
    /\ UNCHANGED <<build, hist, probe>>

\* the engine's play settles: an autoplay refusal is benign, any other
\* failure rejects; then itemstarted and the start seek
PlayPlayed ==
    /\ stack # <<>>
    /\ Top(World).fn = "play" /\ Top(World).pc = "play"
    /\ \E r \in {"ok", "benign", "fatal"} :
          LET f    == Top(World)
              w0   == Call(Pop(World), "play", r)
              w1   == reapplySubtitlesAfterPipelineChange(build, w0)
              w2   == IF build = "part001" THEN w1 ELSE Note(w1, "itemstarted", 0)
              tick == w0.p.opts.playerStartPositionTicks
          IN  Commit(
                CASE r = "fatal" -> PlayCatch(w0, f)
                  [] r # "fatal" /\ tick > 0 ->
                       Push(w2, [f EXCEPT !.pc = "seek", !.seekArg = TicksToMs(tick)])
                  [] OTHER -> PlayDefaults(build, w2, f))
    /\ UNCHANGED <<build, hist, probe>>

\* the start seek settles: its failure is logged (plugin.js, part_000) or
\* rejects play (part_001)
PlaySeeked ==
    /\ stack # <<>>
    /\ Top(World).fn = "play" /\ Top(World).pc = "seek"
    /\ \E r \in {"ok", "fail"} :
          LET f  == Top(World)
              w0 == Call(Pop(World), "seek", r)
          IN  Commit(
                CASE r = "ok" -> PlayDefaults(build, [w0 EXCEPT !.e.pos = f.seekArg], f)
                  [] r = "fail" /\ build = "part001" -> PlayCatch(w0, f)
                  [] OTHER -> PlayDefaults(build, w0, f))
    /\ UNCHANGED <<build, hist, probe>>

\* the awaited default audio selection settled (it never rejects)
PlayDefaultAudioDone ==
    /\ Len(stack) >= 2
    /\ Top(World).fn = "setAudio" /\ Finished(Top(World))
    /\ LET f == Top(Pop(World))
       IN  /\ f.fn = "play" /\ f.pc = "defAudio"
           /\ Commit(PlayDefaultSubtitle(build, Pop(Pop(World)), f))
    /\ UNCHANGED <<build, hist, probe>>

\* part_000: the awaited default subtitle selection settled
PlayDefaultSubtitleDone ==
    /\ Len(stack) >= 2
    /\ Top(World).fn = "setSubtitle" /\ Finished(Top(World))
    /\ LET f == Top(Pop(World))
       IN  /\ f.fn = "play" /\ f.pc = "defSub"
           /\ Commit(PlayFinish(build, Pop(Pop(World)), f))
    /\ UNCHANGED <<build, hist, probe>>

\* part_001: the default selections are issued and not awaited
PlayDefaultsUnawaited ==
    /\ stack # <<>>
    /\ Top(World).fn = "play" /\ Top(World).pc = "defaults"
    /\ \E ra \in {"ok", "error"}, rs \in {"ok", "error"} :
          LET f    == Top(World)
              w0   == Pop(World)
              defA == w0.p.opts.DefaultAudioStreamIndex
              defS == w0.p.opts.DefaultSubtitleStreamIndex
              a    == MapIndex(build, w0.p, w0.e, defA, "audio")
              w1   == IF defA # NULL /\ a \in IdsOfKind(w0.e, "audio") /\ ra = "ok"
                      THEN [w0 EXCEPT !.e.selA = a] ELSE w0
              sb   == MapIndex(build, w1.p, w1.e, defS, "subtitle")
              w2   == CASE defS = NULL -> w1
                        [] defS = -1 -> [w1 EXCEPT !.e.subOn = FALSE]
                        [] defS \notin {NULL, -1} /\ sb # NULL ->
                             [w1 EXCEPT !.e.subOn = TRUE,
                                        !.e.selS = IF sb \in IdsOfKind(w1.e, "subtitle")
                                                      /\ rs = "ok" THEN sb ELSE @]
                        [] OTHER -> w1
          IN  Commit(PlayFinish(build, w2, f))
    /\ UNCHANGED <<build, hist, probe>>

(***************************************************************************)
(* stop(destroyPlayer), _onEndedInternal and destroy().                    *)
(***************************************************************************)
\* plugin.js, part_000: itemstopped with the position, then stopped
onEndedInternal(b, w) ==
    LET positionMs == IF w.p.avplayer THEN w.e.pos ELSE 0
        w1 == IF b = "part001" THEN w ELSE Note(w, "itemstopped", positionMs)
    IN  [Note(w1, "stopped", w.p.currentSrc) EXCEPT !.p.currentSrc = NULL]

\* variant that leaves the dialog in the document
destroyKeepsDialog(b, w) ==
    [w EXCEPT !.p.boundPopState = FALSE,
              !.p.clickUnbind = FALSE,
              !.p.customTrackIndex = -1,
              !.p.videoDialog = "none",
              !.p.container = "none"]

\* destroy(): listeners and rendered track dropped, the dialog removed from
\* the document, (part_000) the maps of external subtitles cleared
destroy(b, w) ==
    [w EXCEPT !.p.boundPopState = FALSE,
              !.p.clickUnbind = FALSE,
              !.p.customTrackIndex = -1,
              !.p.subMap = IF b = "part000" THEN EmptyMap ELSE @,
              !.p.extInfo = {},
              !.d.dialogs = IF w.p.videoDialog = "attached" THEN @ - 1 ELSE @,
              !.d.video = IF w.p.videoDialog = "attached" THEN FALSE ELSE @,
              !.p.videoDialog = "none",
              !.p.container = "none"]

\* stop(destroyPlayer) up to the engine's stop
StopStart(d) ==
    /\ stack = <<>>
    /\ Commit(Push([World EXCEPT !.o = ObsIdle],
                    [Frame("stop", "stop", d) EXCEPT
                        !.posMs = IF player.avplayer THEN eng.pos ELSE 0]))
    /\ UNCHANGED <<build, hist, probe>>

\* variant that gives up when the engine's stop fails
StopStoppedGivesUp ==
    /\ stack # <<>>
    /\ Top(World).fn = "stop" /\ Top(World).pc = "stop"
    /\ \E r \in IF player.avplayer THEN {"ok", "fail"} ELSE {"ok"} :
          LET f  == [Top(World) EXCEPT !.tag = r]
              w0 == Call(Pop(World), "stop", r)
              w1 == IF build = "part001" THEN w0 ELSE onEndedInternal(build, w0)
          IN  Commit(IF r = "fail" THEN Push(w0, [f EXCEPT !.pc = "thr"])
                     ELSE Push(w1, [f EXCEPT !.pc = IF f.arg = 1 THEN "destroy" ELSE "ret"]))
    /\ UNCHANGED <<build, hist, probe>>

\* the engine's stop settles (its failure is swallowed); plugin.js and
\* part_000 then run _onEndedInternal; with destroyPlayer the engine is
\* asked to destroy itself
StopStopped ==
    /\ stack # <<>>
    /\ Top(World).fn = "stop" /\ Top(World).pc = "stop"
    /\ \E r \in IF player.avplayer THEN {"ok", "fail"} ELSE {"ok"} :
          LET f  == [Top(World) EXCEPT !.tag = r]
              w0 == Call(Pop(World), "stop", r)
              w1 == IF build = "part001" THEN w0 ELSE onEndedInternal(build, w0)
          IN  Commit(Push(w1, [f EXCEPT !.pc = IF f.arg = 1 THEN "destroy" ELSE "ret"]))
    /\ UNCHANGED <<build, hist, probe>>

\* the engine's destroy settles (its failure is swallowed), then destroy()
StopDestroyed ==
    /\ stack # <<>>
    /\ Top(World).fn = "stop" /\ Top(World).pc = "destroy"
    /\ \E r \in IF player.avplayer THEN {"ok", "fail"} ELSE {"fail"} :
          LET f  == Top(World)
              w0 == Call(Pop(World), "destroy", r)
              w1 == IF r = "ok" THEN [w0 EXCEPT !.e = EngDestroyed(@)] ELSE w0
          IN  Commit(Push(destroy(build, w1), [f EXCEPT !.pc = "ret"]))
    /\ UNCHANGED <<build, hist, probe>>

(***************************************************************************)
(* The host: it calls one operation at a time and awaits it.               *)
(***************************************************************************)
SetAudioStart(i) ==
    /\ stack = <<>>
    /\ Commit(EnterSetAudio(build, [World EXCEPT !.o = ObsIdle], i))
    /\ UNCHANGED <<build, hist, probe>>

SetSubtitleStart(i) ==
    /\ stack = <<>>
    /\ Commit(EnterSetSubtitle(build, [World EXCEPT !.o = ObsIdle], i))
    /\ hist' = [hist EXCEPT !.subOff = (i = -1)]
    /\ UNCHANGED <<build, probe>>

\* the promise of the host's call settles
Settle ==
    /\ Len(stack) = 1
    /\ Finished(stack[1])
    /\ stack' = <<>>
    /\ obs' = ObsIdle
    /\ hist' = [hist EXCEPT !.last = [fn |-> stack[1].fn, arg |-> stack[1].arg,
                                      res |-> stack[1].pc]]
    /\ UNCHANGED <<build, player, eng, dom, probe>>

\* playback advances while the host is idle
Tick ==
    /\ stack = <<>>
    /\ player.avplayer /\ eng.st = "loaded" /\ eng.pos # PosMs
    /\ eng' = [eng EXCEPT !.pos = PosMs]
    /\ UNCHANGED <<build, player, dom, stack, obs, hist, probe>>

(***************************************************************************)
(* Events.  The engine signals paused / resume / playing / played to the   *)
(* listeners _bindEvents registered; the host triggers playbackstart on    *)
(* the object once it has made it the current player.  hist.ev remembers   *)
(* of the pause and unpause notifications the last one (pu), whether the   *)
(* last engine signal was passed on to the host (quiet when not), and      *)
(* whether an unpause was ever sent that did not follow a pause (dup).     *)
(***************************************************************************)
\* the 'paused' listener: the flag is set and pause is notified
EnginePaused ==
    /\ player.avplayer /\ eng.st = "loaded"
    /\ player' = [player EXCEPT !.paused = TRUE]
    /\ hist' = [hist EXCEPT !.ev = [@ EXCEPT !.pu = "pause", !.quiet = FALSE]]
    /\ UNCHANGED <<build, eng, dom, stack, obs, probe>>

\* variant that notifies unpause on every signal
EngineResumedAlwaysNotifies ==
    /\ player.avplayer /\ eng.st = "loaded"
    /\ player' = [player EXCEPT !.paused = FALSE]
    /\ hist' = [hist EXCEPT !.ev = [pu |-> "unpause", quiet |-> FALSE,
                                    dup |-> (@.dup \/ @.pu # "pause")]]
    /\ UNCHANGED <<build, eng, dom, stack, obs, probe>>

\* the 'resume', 'playing' and 'played' listeners: the flag is cleared and
\* unpause is notified when the flag was set
EngineResumed ==
    /\ player.avplayer /\ eng.st = "loaded"
    /\ player' = [player EXCEPT !.paused = FALSE]
    /\ hist' = [hist EXCEPT !.ev =
                    IF player.paused
                    THEN [pu |-> "unpause", quiet |-> FALSE,
                          dup |-> (@.dup \/ @.pu # "pause")]
                    ELSE [@ EXCEPT !.quiet = TRUE]]
    /\ UNCHANGED <<build, eng, dom, stack, obs, probe>>

\* variant whose handler stays registered when revealing the controls fails
PlaybackStartKeepsFailed ==
    /\ stack = <<>>
    /\ \E r \in {"ok", "throws"} :
          /\ player' = [player EXCEPT !.osdHandler = (@ /\ r = "throws")]
          /\ obs' = [ObsIdle EXCEPT !.notes =
                        <<[n |-> "playbackstart",
                           v |-> IF player.osdHandler THEN r ELSE "none"]>>]
    /\ UNCHANGED <<build, eng, dom, stack, hist, probe>>

\* the host triggers playbackstart: handlePlaybackStart, when registered,
\* reveals the controls (which may throw) and unregisters itself in finally
PlaybackStart ==
    /\ stack = <<>>
    /\ \E r \in {"ok", "throws"} :
          /\ player' = [player EXCEPT !.osdHandler = FALSE]
          /\ obs' = [ObsIdle EXCEPT !.notes =
                        <<[n |-> "playbackstart",
                           v |-> IF player.osdHandler THEN r ELSE "none"]>>]
    /\ UNCHANGED <<build, eng, dom, stack, hist, probe>>

NoProbe == [host |-> <<>>, lib |-> <<>>, subMap |-> EmptyMap, jfIndex |-> NULL,
            kind |-> "audio", out |-> NULL, n |-> 0]

Init ==
    /\ build \in Builds
    /\ player = InitPlayer
    /\ eng = NoEngine
    /\ dom = [dialogs |-> 0, video |-> FALSE]
    /\ stack = <<>>
    /\ obs = ObsIdle
    /\ hist = [last |-> [fn |-> "none", arg |-> 0, res |-> "ret"], subOff |-> FALSE,
               ev |-> [pu |-> "none", quiet |-> FALSE, dup |-> FALSE]]
    /\ probe = NoProbe

Next ==
    \/ \E o \in PlayOptions : PlayStart(o)
    \/ PlayLoaded
    \/ PlayFallback
    \/ PlayPlayed
    \/ PlaySeeked
    \/ PlayDefaultAudioDone
    \/ PlayDefaultSubtitleDone
    \/ PlayDefaultsUnawaited
    \/ \E i \in AudioIndices : SetAudioStart(i)
    \/ \E i \in SubtitleIndices : SetSubtitleStart(i)
    \/ SelectFirst
    \/ SelectEnsured
    \/ SelectRetry
    \/ LoadExternalSubtitle
    \/ SelectAfterExternal
    \/ SwitchRebuild
    \/ SwitchLoaded
    \/ SwitchPlayed
    \/ EnsureSwitched
    \/ EnsureSeeked
    \/ EnsurePlayed
    \/ \E d \in {0, 1} : StopStart(d)
    \/ StopStopped
    \/ StopDestroyed
    \/ Settle
    \/ Tick

Spec == Init /\ [][Next]_vars

(***************************************************************************)
(* The session with its events: play() without start position or default  *)
(* streams and stop(), while the engine signals and the host triggers      *)
(* playbackstart.                                                          *)
(***************************************************************************)
EventOptions == {Opt(1, 0, NULL, NULL), Opt(2, 0, NULL, NULL)}

EventNext ==
    \/ \E o \in EventOptions : PlayStart(o)
    \/ PlayLoaded
    \/ PlayFallback
    \/ PlayPlayed
    \/ PlayDefaultsUnawaited
    \/ SwitchRebuild
    \/ SwitchLoaded
    \/ SwitchPlayed
    \/ \E d \in {0, 1} : StopStart(d)
    \/ StopStopped
    \/ StopDestroyed
    \/ Settle
    \/ EnginePaused
    \/ EngineResumed
    \/ PlaybackStart

EventSpec == Init /\ [][EventNext]_vars


(***************************************************************************)
(* Direct calls of the index mapper.  The host stream list and the engine  *)
(* stream list are drawn from pools, in any order and without repetition;  *)
(* the map of ingested external subtitles is empty or holds the external   *)
(* subtitle of the pool.                                                   *)
(***************************************************************************)
HostPool ==
    { HS(1, "Audio", FALSE, "eng", "main", "aac"),
      HS(2, "Audio", FALSE, "jpn", "", "ac3"),
      HS(3, "Subtitle", TRUE, "jpn", "signs", "ass"),
      HS(4, "Subtitle", FALSE, "eng", "", "subrip"),
      HS(5, "Subtitle", FALSE, "jpn", "", "ass") }

LibPool ==
    { LS(10, 1, "audio", "jpn", "", 86018),
      LS(11, 2, "audio", "eng", "main", 86019),
      LS(12, 4, "subtitle", "", "signs", 0),
      LS(13, 5, "subtitle", "eng", "", 0) }

\* the lists of at most n distinct members of S
ListsOf(S, n) ==
    { f \in UNION { [1..k -> S] : k \in 0..n } :
        \A i, j \in 1..Len(f) : i # j => f[i] # f[j] }

ProbeIndices == {1, 2, 3, 4, 5}

MapInit ==
    /\ build \in Builds
    /\ player = InitPlayer
    /\ eng = NoEngine
    /\ dom = [dialogs |-> 0, video |-> FALSE]
    /\ stack = <<>>
    /\ obs = ObsIdle
    /\ hist = [last |-> [fn |-> "none", arg |-> 0, res |-> "ret"], subOff |-> FALSE,
               ev |-> [pu |-> "none", quiet |-> FALSE, dup |-> FALSE]]
    /\ \E h \in ListsOf(HostPool, MaxHost), l \in ListsOf(LibPool, MaxLib) :
       \E m \in IF build = "plugin" THEN {EmptyMap} ELSE {EmptyMap, [i \in {3} |-> 24]} :
          probe = [NoProbe EXCEPT !.host = h, !.lib = l, !.subMap = m]

\* one call _mapJellyfinStreamIndexToLibId(jfIndex, kind)
MapProbe(jfIndex, kind) ==
    /\ probe.n = 0
    /\ probe' = [probe EXCEPT
                   !.jfIndex = jfIndex, !.kind = kind, !.n = 1,
                   !.out = mapJellyfinStreamIndexToLibId(build, probe.host, probe.lib,
                                                         probe.subMap, jfIndex, kind)]
    /\ UNCHANGED <<build, player, eng, dom, stack, obs, hist>>

MapNext == \E i \in ProbeIndices, k \in {"audio", "subtitle"} : MapProbe(i, k)

MapSpec == MapInit /\ [][MapNext]_vars

(***************************************************************************)
(* C1.  Positional correspondence.                                         *)
(***************************************************************************)
\* the probed host index is that of an embedded host stream of the kind
C1_TargetEmbedded ==
    \E i \in 1..Len(probe.host) :
        /\ probe.host[i].Index = probe.jfIndex
        /\ probe.host[i].Type = HostType(probe.kind)
        /\ ~probe.host[i].IsExternal

\* its position among the embedded host streams of the kind by ascending
\* Index: one more than the number of those with a smaller Index
C1_Position ==
    1 + Cardinality({ i \in 1..Len(probe.host) :
                        /\ probe.host[i].Type = HostType(probe.kind)
                        /\ ~probe.host[i].IsExternal
                        /\ probe.host[i].Index < probe.jfIndex })

\* the places of the engine streams of the kind in the enumeration
C1_Places == { j \in 1..Len(probe.lib) : probe.lib[j].codecType = probe.kind }

\* the engine enumerates a stream of the kind at that position and the
\* mapper returned its id
C1_ReturnsStreamAtPosition ==
    \E j \in C1_Places :
        /\ Cardinality({ i \in C1_Places : i < j }) = C1_Position - 1
        /\ probe.out = probe.lib[j].id

C1_Case ==
    /\ probe.n = 1
    /\ C1_TargetEmbedded
    /\ Cardinality(C1_Places) >= C1_Position

\* C1 (as stated): in plugin.js and part_000, for audio and for subtitle,
\* when the target is at position p of the embedded host streams of the
\* kind sorted by Index and the engine enumerates a stream of the kind at
\* position p, the mapper returns the id of that engine stream.
C1_AsStated ==
    (build \in {"plugin", "part000"} /\ C1_Case) => C1_ReturnsStreamAtPosition

\* C1 (amended): the positional correspondence holds for audio in plugin.js
\* and part_000 and for subtitle in part_000; the mapper of plugin.js maps
\* audio only and returns null for a subtitle.
C1_PositionalCorrespondence ==
    /\ (C1_Case /\ (build = "part000" \/ (build = "plugin" /\ probe.kind = "audio")))
          => C1_ReturnsStreamAtPosition
    /\ (C1_Case /\ build = "plugin" /\ probe.kind = "subtitle") => probe.out = NULL

\* a subtitle at position 2 behind an external subtitle of smaller Index is
\* mapped to the second subtitle stream of the engine
C1_Witness ==
    /\ build = "part000"
    /\ C1_Case
    /\ probe.kind = "subtitle"
    /\ C1_Position = 2
    /\ \E i \in 1..Len(probe.host) :
          probe.host[i].IsExternal /\ probe.host[i].Index < probe.jfIndex
    /\ C1_ReturnsStreamAtPosition


(***************************************************************************)
(* The call of the host that has just finished and is about to settle.     *)
(***************************************************************************)
Done(fn) == Len(stack) = 1 /\ stack[1].fn = fn /\ Finished(stack[1])

\* i is the Index of an embedded audio stream of the file being played
ValidEmbeddedAudio(i) ==
    \E k \in 1..Len(Host(player)) :
        /\ Host(player)[k].Index = i
        /\ Host(player)[k].Type = "Audio"
        /\ ~Host(player)[k].IsExternal

(***************************************************************************)
(* C2.  Round trip of the audio selection.                                 *)
(***************************************************************************)
\* setAudioStreamIndex(i) has completed for a valid embedded audio index
\* and the engine accepted the selection: the last selection call resolved
\* and the engine's selected audio stream is the requested one
C2_Accepted ==
    /\ build \in {"plugin", "part000"}
    /\ Done("setAudio")
    /\ ValidEmbeddedAudio(stack[1].arg)
    /\ stack[1].first = "ok" \/ stack[1].tag = "retry ok"
    /\ eng.selA = stack[1].libId

\* C2: for every valid embedded audio host index i, once
\* setAudioStreamIndex(i) has completed and the engine accepted the
\* selection, getAudioStreamIndex() returns i, also when the engine
\* enumerates fewer audio streams than the host declares.
C2_RoundTrip ==
    C2_Accepted => getAudioStreamIndex(build, player, eng) = stack[1].arg

\* the accepted selection of an index the mapper resolved by metadata,
\* the engine enumerating fewer audio streams than the host declares
C2_FallbackCase ==
    /\ C2_Accepted
    /\ Len(LibOfKind(EngStreams(eng), "audio")) < Len(EmbeddedOfKind(Host(player), "audio"))
    /\ getAudioStreamIndex(build, player, eng) # stack[1].arg

(***************************************************************************)
(* C3.  Disabling subtitles.                                               *)
(***************************************************************************)
\* C3: after setSubtitleStreamIndex(-1) has completed, getSubtitleStreamIndex()
\* returns -1 in every state until another subtitle is selected, whatever
\* was selected before.
C3_DisabledStaysDisabled ==
    (build \in {"plugin", "part000"} /\ hist.subOff /\ stack = <<>>)
        => getSubtitleStreamIndex(build, player, eng) = -1

\* plugin.js: subtitles were disabled and a later pipeline switch has
\* rendered the default subtitle again
C3_ReappliedAfterSwitch ==
    /\ build = "plugin"
    /\ hist.subOff
    /\ stack = <<>>
    /\ ~player.prefersMSE
    /\ getSubtitleStreamIndex(build, player, eng) = player.opts.DefaultSubtitleStreamIndex
    /\ player.opts.DefaultSubtitleStreamIndex >= 0

\* part_000: subtitles were disabled and the engine still reports the
\* stream selected before
C3_EngineSelectionKept ==
    /\ build = "part000"
    /\ hist.subOff
    /\ stack = <<>>
    /\ ~eng.subOn
    /\ getSubtitleStreamIndex(build, player, eng) >= 0


(***************************************************************************)
(* C4.  One switch and one retry after an unsupported selection.           *)
(***************************************************************************)
\* a selection operation has finished whose first selection call the
\* engine rejected as unsupported
C4_Rejected ==
    /\ build \in {"plugin", "part000"}
    /\ stack # <<>>
    /\ Top(World).fn \in {"setAudio", "setSubtitle"}
    /\ Finished(Top(World))
    /\ Top(World).first = "unsupported"

\* engines constructed by the operation on top of the stack
C4_Built == Len(obs.built) - Top(World).built0

\* C4 (as stated): whenever the engine rejects the selection as
\* unsupported, the pipeline is switched exactly once and the selection is
\* issued exactly once more, whatever the pipeline state was.
C4_AsStated == C4_Rejected => (C4_Built = 1 /\ Top(World).sel = 2)

\* C4 (amended): the operation resolves; if the session preferred the
\* managed-source pipeline when the call was made, exactly one raw-stream
\* engine is built and loaded, and the selection is issued exactly once
\* more when that load succeeded and not again when it failed; if the
\* session was already on the raw-stream pipeline nothing is switched and
\* nothing is retried.
C4_SwitchOnceRetryOnce ==
    C4_Rejected =>
        /\ Top(World).pc = "ret"
        /\ ~Top(World).pref => (C4_Built = 0 /\ Top(World).sel = 1)
        /\ Top(World).pref =>
              /\ C4_Built = 1
              /\ obs.built[Len(obs.built)] = "ms"
              /\ obs.loads[Len(obs.loads)].by = "selection"
              /\ obs.loads[Len(obs.loads)].r = "ok" => Top(World).sel = 2
              /\ obs.loads[Len(obs.loads)].r = "fail" => Top(World).sel = 1

\* the switch was made and the retried selection failed as well
C4_Witness ==
    /\ C4_Rejected
    /\ Top(World).pref
    /\ Top(World).tag = "retry failed"
    /\ Top(World).sel = 2
    /\ eng.mode = "ms" /\ eng.st = "loaded"

(***************************************************************************)
(* C5.  stop(true) twice.                                                  *)
(***************************************************************************)
\* the second of two stop(true) calls in succession has finished
C5_SecondStop ==
    /\ Done("stop")
    /\ stack[1].arg = 1
    /\ hist.last.fn = "stop" /\ hist.last.arg = 1

\* C5: calling stop(true) twice in succession never rejects, and after the
\* second call no player dialog is attached to the document.
C5_StopTwice ==
    C5_SecondStop =>
        /\ hist.last.res = "ret"
        /\ stack[1].pc = "ret"
        /\ dom.dialogs = 0
        /\ player.videoDialog = "none" /\ player.container = "none"

\* the second stop(true) after a session on the raw-stream pipeline
C5_Witness ==
    /\ C5_SecondStop
    /\ build = "plugin"
    /\ ~player.prefersMSE
    /\ eng.st = "dead"

(***************************************************************************)
(* C6.  A selection-triggered switch and the position.                     *)
(***************************************************************************)
\* _ensureMediaStreamFallback has switched the pipeline and returned true;
\* posMs is the position the old engine reported when it started
C6_Switched ==
    /\ build \in {"plugin", "part000"}
    /\ stack # <<>>
    /\ Top(World).fn = "ensure" /\ Top(World).pc = "ret" /\ Top(World).ret = 1

\* C6 (as stated): after the switch the new engine has been asked to seek
\* to the old position P and plays from it; the position is never reset
\* to 0 by a switch.
C6_AsStated ==
    C6_Switched =>
        /\ Top(World).posMs > 0 => Top(World).seekArg = Top(World).posMs
        /\ eng.pos = Top(World).posMs

\* C6 (amended): when P > 0 the new engine is asked to seek to P after the
\* reload and before play; the position is P when the engine performs that
\* seek; when the engine rejects the seek the failure is swallowed and the
\* new engine plays from 0.
C6_SeekAfterReload ==
    C6_Switched =>
        /\ Top(World).posMs > 0 =>
              /\ Top(World).seekArg = Top(World).posMs
              /\ Top(World).tag \in {"ok", "fail"}
        /\ Top(World).posMs = 0 => (Top(World).seekArg = NULL /\ Top(World).tag = "")
        /\ Top(World).tag # "fail" => eng.pos = Top(World).posMs
        /\ Top(World).tag = "fail" => eng.pos = 0
        /\ eng.mode = "ms" /\ eng.st = "loaded"

\* a switch at a positive position whose seek the new engine performed
C6_Witness ==
    /\ C6_Switched
    /\ Top(World).posMs = PosMs
    /\ Top(World).tag = "ok"
    /\ eng.pos = PosMs

(***************************************************************************)
(* C7.  The loads of play().                                               *)
(***************************************************************************)
C7_Play == build \in {"plugin", "part000"} /\ Done("play")

C7_Errors == Len(SelectSeq(obs.notes, LAMBDA x : x.n = "error"))

\* C7 (as stated): play() loads at most twice, first on the managed-source
\* engine and, only if that failed, on a freshly built raw-stream engine;
\* if the second load fails too, play() rejects with exactly one error
\* notification.
C7_AsStated ==
    C7_Play =>
        /\ Len(obs.loads) \in {1, 2}
        /\ obs.loads[1].mode = "mse"
        /\ Len(obs.loads) = 2 =>
              /\ obs.loads[1].r = "fail"
              /\ obs.loads[2].mode = "ms"
              /\ obs.built = <<"mse", "ms">>
        /\ (Len(obs.loads) = 2 /\ obs.loads[2].r = "fail") =>
              (stack[1].pc = "thr" /\ C7_Errors = 1)

\* C7 (amended): play() loads at most twice, first on the managed-source
\* engine; a failed first load is always followed by one load on a freshly
\* built raw-stream engine, and when that fails too play() rejects with
\* exactly one error notification; after a successful first load a second
\* load, on a freshly built raw-stream engine, happens only when a default
\* stream selection of play() was rejected as unsupported, and play() then
\* resolves whatever that load does.
C7_LoadsOfPlay ==
    C7_Play =>
        /\ Len(obs.loads) \in {1, 2}
        /\ obs.loads[1].mode = "mse" /\ obs.loads[1].by = "play"
        /\ obs.loads[1].r = "fail" =>
              /\ Len(obs.loads) = 2
              /\ obs.loads[2].by = "fallback"
              /\ obs.loads[2].r = "fail" => (stack[1].pc = "thr" /\ C7_Errors = 1)
        /\ Len(obs.loads) = 2 =>
              /\ obs.loads[2].mode = "ms"
              /\ obs.built = <<"mse", "ms">>
              /\ obs.loads[1].r = "ok" =>
                    (obs.loads[2].by = "selection" /\ stack[1].pc = "ret")
        /\ stack[1].pc = "thr" => C7_Errors = 1
        /\ stack[1].pc = "ret" => C7_Errors = 0

\* both loads failed and play() rejected
C7_Witness ==
    /\ C7_Play
    /\ Len(obs.loads) = 2
    /\ obs.loads[1].r = "fail" /\ obs.loads[2].r = "fail"
    /\ stack[1].pc = "thr"

(***************************************************************************)
(* C8.  No way back from the raw-stream pipeline.                          *)
(***************************************************************************)
\* the step is the start of a play() call
C8_PlayStarts == stack = <<>> /\ stack' # <<>> /\ stack'[1].fn = "play"

\* C8: in plugin.js, once the session is on the raw-stream pipeline, no
\* step other than the start of the next play() puts it back on the
\* managed-source pipeline or constructs a managed-source engine.
C8_NoWayBack ==
    [][ (build = "plugin" /\ ~player.prefersMSE /\ ~C8_PlayStarts)
            => (~player'.prefersMSE /\ eng'.mode = "ms") ]_vars

\* on the raw-stream pipeline a selection was rejected as unsupported and
\* _ensureMediaStreamFallback returned false
C8_Witness ==
    /\ build = "plugin"
    /\ ~player.prefersMSE
    /\ stack # <<>>
    /\ Top(World).fn = "ensure" /\ Top(World).pc = "ret" /\ Top(World).ret = 0
    /\ eng.mode = "ms"

(***************************************************************************)
(* C9.  stop() and its notifications.                                      *)
(***************************************************************************)
\* C9: every stop(destroyPlayer) of plugin.js and part_001 emits
\* itemstopped with the position the engine had, then stopped, whether or
\* not the engine's stop failed.
C9_StopNotifies ==
    (build \in {"plugin", "part001"} /\ Done("stop")) =>
        /\ Len(obs.notes) = 2
        /\ obs.notes[1] = [n |-> "itemstopped", v |-> stack[1].posMs]
        /\ obs.notes[2].n = "stopped"

\* part_001: a stop of a playing session finished without any notification
C9_SilentStop ==
    /\ build = "part001"
    /\ Done("stop")
    /\ player.osdHandler
    /\ player.currentSrc # NULL
    /\ obs.notes = <<>>

(***************************************************************************)
(* C10.  A host index the mapper cannot resolve.                           *)
(***************************************************************************)
\* a selection operation ended because the mapper returned null
C10_Unmapped ==
    /\ build \in {"plugin", "part000"}
    /\ stack # <<>>
    /\ Top(World).fn \in {"setAudio", "setSubtitle"}
    /\ Top(World).tag = "unmapped"

\* C10: when the mapper cannot resolve the host index the operation
\* resolves, no selection call was issued, no engine was built and the
\* pipeline flag is what it was.
C10_NoOp ==
    C10_Unmapped =>
        /\ Top(World).pc = "ret"
        /\ Top(World).sel = 0
        /\ Len(obs.built) = Top(World).built0
        /\ player.prefersMSE = Top(World).pref

\* part_000: an unknown subtitle index on a loaded engine
C10_Witness ==
    /\ C10_Unmapped
    /\ build = "part000"
    /\ Top(World).fn = "setSubtitle"
    /\ eng.st = "loaded"
    /\ Len(stack) = 1


(***************************************************************************)
(* C11.  When play() rejects.                                              *)
(***************************************************************************)
C11_Play == build \in {"plugin", "part000"} /\ Done("play")

\* the call c with outcome (or argument) r was made during the operation
Called(c, r) == \E i \in 1..Len(obs.calls) : obs.calls[i].c = c /\ obs.calls[i].r = r

\* the source could not be loaded on either pipeline
C11_LoadFailed ==
    /\ Len(obs.loads) = 2
    /\ obs.loads[1].r = "fail" /\ obs.loads[2].r = "fail"

\* C11 (as stated): play() rejects only when the source could not be
\* loaded on either pipeline; with any other failure it resolves.
C11_AsStated == C11_Play => (stack[1].pc = "thr" <=> C11_LoadFailed)

\* C11 (amended): play() rejects exactly when the source could not be
\* loaded on either pipeline or the engine rejected the play attempt with a
\* failure other than NotAllowedError and AbortError; a failed start seek
\* and failed default stream selections are absorbed and play() resolves.
C11_RejectsOnLoadOrPlayFailure ==
    C11_Play => (stack[1].pc = "thr" <=> (C11_LoadFailed \/ Called("play", "fatal")))

\* play() resolved although its start seek and a default selection failed
C11_Witness ==
    /\ C11_Play
    /\ stack[1].pc = "ret"
    /\ Called("seek", "fail")
    /\ Called("select", "error")

(***************************************************************************)
(* C12.  The selection operations never reject and leave playback alive.   *)
(***************************************************************************)
\* a selection operation called by the host while the engine held the
\* source has finished
C12_Set ==
    /\ build \in {"plugin", "part000"}
    /\ Done("setAudio") \/ Done("setSubtitle")
    /\ stack[1].live

\* C12: setAudioStreamIndex and setSubtitleStreamIndex never reject,
\* whatever the engine answers, and the session goes on playing: when the
\* operation has finished the session's engine still holds the source.
C12_NeverRejectsAndPlays ==
    C12_Set => (stack[1].pc = "ret" /\ player.avplayer /\ eng.st = "loaded")

\* the reload of the switch failed: the operation resolved, no error was
\* signalled, and the only engine of the session holds no source
C12_SilentlyDead ==
    /\ C12_Set
    /\ stack[1].pc = "ret"
    /\ obs.loads # <<>> /\ obs.loads[Len(obs.loads)].r = "fail"
    /\ eng.st = "failed" /\ eng.mode = "ms"
    /\ \A i \in 1..Len(obs.notes) : obs.notes[i].n # "error"

\* the operations of plugin.js and part_000 never reject
C12_NeverRejects ==
    (build \in {"plugin", "part000"} /\ (Done("setAudio") \/ Done("setSubtitle")))
        => stack[1].pc = "ret"

(***************************************************************************)
(* C13.  A refused autoplay does not fail play().                          *)
(***************************************************************************)
\* play() has finished after the engine's play attempt was rejected with
\* NotAllowedError or AbortError
C13_AutoplayRefused == C11_Play /\ Called("play", "benign")

C13_Notes(n) == Len(SelectSeq(obs.notes, LAMBDA x : x.n = n))

\* C13: when the engine's play attempt inside play() is rejected with
\* NotAllowedError or AbortError, play() still emits item-started, issues
\* the start seek (when the start position is positive) and the default
\* selections the media source declares, emits end-fetch, resolves, and
\* emits no error notification.
C13_AutoplayRefusalIsBenign ==
    C13_AutoplayRefused =>
        /\ stack[1].pc = "ret"
        /\ C13_Notes("itemstarted") = 1
        /\ C13_Notes("error") = 0
        /\ obs.notes[Len(obs.notes)].n = "endFetch"
        /\ ~player.isFetching
        /\ player.opts.playerStartPositionTicks > 0 =>
              (Called("seek", "ok") \/ Called("seek", "fail"))
        /\ player.opts.DefaultAudioStreamIndex # NULL =>
              Called("setAudio", player.opts.DefaultAudioStreamIndex)
        /\ player.opts.DefaultSubtitleStreamIndex # NULL =>
              Called("setSubtitle", player.opts.DefaultSubtitleStreamIndex)

\* a play() with a start position and defaults whose autoplay was refused
C13_Witness ==
    /\ C13_AutoplayRefused
    /\ player.opts.playerStartPositionTicks > 0
    /\ player.opts.DefaultAudioStreamIndex # NULL
    /\ player.opts.DefaultSubtitleStreamIndex # NULL
    /\ stack[1].pc = "ret"

(***************************************************************************)
(* C14.  The UI-ready handler is one-shot.                                 *)
(***************************************************************************)
\* the step is a playbackstart notification of the host
C14_PlaybackStart ==
    /\ stack = <<>> /\ stack' = <<>>
    /\ obs' # obs
    /\ Len(obs'.notes) = 1 /\ obs'.notes[1].n = "playbackstart"

\* C14: the UI-ready handler registered by a successful play() runs on the
\* first playbackstart notification after its registration and is
\* unregistered by it, also when revealing the controls fails; a
\* playbackstart that finds no handler registered runs none, so the
\* handler runs at most once.
C14_OneShot ==
    [][C14_PlaybackStart =>
          /\ (obs'.notes[1].v \in {"ok", "throws"}) <=> player.osdHandler
          /\ ~player'.osdHandler]_vars

\* a playbackstart has run the handler, revealing the controls failed, and
\* the handler is no longer registered
C14_Witness ==
    /\ stack = <<>>
    /\ obs.notes = <<[n |-> "playbackstart", v |-> "throws"]>>
    /\ ~player.osdHandler
    /\ hist.last.fn = "play" /\ hist.last.res = "ret"

(***************************************************************************)
(* C15.  What stop(true) releases (plugin.js).                             *)
(***************************************************************************)
\* stop(true) of plugin.js has completed and nothing else is in flight
C15_Stopped == build = "plugin" /\ Done("stop") /\ stack[1].arg = 1

\* the session holds an engine instance that was not destroyed
C15_HoldsEngine == player.avplayer /\ eng.st \notin {"none", "dead"}

\* C15: after stop(true) has completed, the session holds no engine
\* instance and no render container, and none of the listeners it
\* registered (popstate, the click and dblclick listeners of the
\* container, the one-shot playbackstart handler) is still registered.
C15_AllReleased ==
    C15_Stopped =>
        /\ ~C15_HoldsEngine
        /\ player.container = "none" /\ player.videoDialog = "none"
        /\ ~player.boundPopState
        /\ ~player.clickUnbind /\ ~player.clickStale
        /\ ~player.osdHandler

\* stop(true) has completed after a play() that no playbackstart followed:
\* the engine is destroyed and the container removed, and the handler of
\* that play() is still registered on the object
C15_HandlerLeft ==
    /\ C15_Stopped
    /\ ~C15_HoldsEngine
    /\ player.container = "none"
    /\ player.osdHandler

(***************************************************************************)
(* C16.  stop(true) completes its teardown whatever the engine does.       *)
(***************************************************************************)
C16_Stopped ==
    build \in {"plugin", "part000"} /\ Done("stop") /\ stack[1].arg = 1

\* C16: stop(true) always completes its teardown: whether or not the
\* engine's stop and destroy fail, the returned promise resolves, the
\* stopped notification has been emitted once, and the render container
\* and its dialog are removed from the document.
C16_TeardownCompletes ==
    C16_Stopped =>
        /\ stack[1].pc = "ret"
        /\ C13_Notes("stopped") = 1
        /\ player.container = "none" /\ player.videoDialog = "none"
        /\ dom.dialogs = 0

\* stop(true) on a playing session whose engine failed to stop and to
\* destroy itself
C16_Witness ==
    /\ C16_Stopped
    /\ hist.last.fn = "play" /\ hist.last.res = "ret"
    /\ Called("stop", "fail") /\ Called("destroy", "fail")

(***************************************************************************)
(* C17.  The mapping of an external subtitle after its load (part_000).    *)
(***************************************************************************)
\* _loadExternalSubtitle(index) has completed without throwing and its
\* caller has not resumed yet
C17_Loaded ==
    /\ stack # <<>>
    /\ Top(World).fn = "loadExternalSubtitle"
    /\ Top(World).pc = "ret"

\* the subtitle streams the engine enumerates now and did not enumerate
\* when _loadExternalSubtitle took its snapshot
C17_New == IdsOfKind(eng, "subtitle") \ Top(World).seen

C18_Session == build = "part000" /\ player.avplayer /\ eng.st = "loaded"

\* what getSubtitleStreamIndex() returns when the engine's selected
\* subtitle stream is the one with id e
C18_InverseOf(e) == getSubtitleStreamIndex(build, player, [eng EXCEPT !.selS = e])

\* the mapper resolves host subtitle index i, and the getter applied to the
\* resulting id returns i
C18_RoundTrip(i) ==
    LET e == MapIndex(build, player, eng, i, "subtitle")
    IN  e # NULL => C18_InverseOf(e) = i

\* C18: getSubtitleStreamIndex() is the inverse of the mapper: for every
\* host subtitle index i that the mapper resolves to an engine id e, the
\* getter returns i when e is the engine's selected subtitle stream.
C18_InverseOfMapper ==
    C18_Session => \A i \in SubtitleIndices \ {-1} : C18_RoundTrip(i)

\* the engine enumerates no embedded subtitle stream and has ingested the
\* external subtitle 4: the mapper resolves the embedded index 3 by position
\* to the ingested stream, which the getter reports as index 4
C18_ExternalAtEmbeddedPosition ==
    /\ C18_Session
    /\ 4 \in DOMAIN player.subMap
    /\ MapIndex(build, player, eng, 3, "subtitle") = player.subMap[4]
    /\ C18_InverseOf(player.subMap[4]) = 4

(***************************************************************************)
(* C19.  Unpause notifications are de-duplicated.                          *)
(***************************************************************************)
\* C19: whatever the engine signals (paused, resume, playing, played), the
\* host is notified of unpause only when the adapter was paused: every
\* unpause notification follows a pause notification with no other
\* unpause in between, so repeated resume / playing / played signals
\* without a paused signal produce at most one unpause.
C19_UnpauseFollowsPause ==
    /\ ~hist.ev.dup
    /\ player.paused => hist.ev.pu = "pause"

\* after an unpause notification a further resume / playing / played
\* signal has arrived and was not passed on
C19_Witness ==
    /\ hist.ev.pu = "unpause"
    /\ hist.ev.quiet
    /\ ~player.paused

(***************************************************************************)
(* C20.  The order of the steps of a successful play().                    *)
(***************************************************************************)
\* a play() of plugin.js or part_000 has resolved
C20_Played == C11_Play /\ stack[1].pc = "ret"

\* the place of the first notification n among the notifications, and of
\* the first call c among the calls, of the operation (0 when absent)
C20_NoteAt(n) == FindIndex(obs.notes, LAMBDA x : x.n = n)
C20_CallAt(c) == FindIndex(obs.calls, LAMBDA x : x.c = c)

\* call i was made after the item-started notification and after the
\* start seek, if there was one, had settled
C20_AfterStartAndSeek(i) ==
    /\ obs.calls[i].at >= C20_NoteAt("itemstarted")
    /\ C20_CallAt("seek") # 0 => i > C20_CallAt("seek")

\* load, saved volume, engine play, item-started, start seek when the
\* start position is positive, in this order
C20_Prefix ==
    /\ C13_Notes("volumechange") = 1 /\ C13_Notes("itemstarted") = 1
    /\ C20_NoteAt("volumechange") < C20_NoteAt("itemstarted")
    /\ C20_CallAt("load") # 0
    /\ obs.calls[C20_CallAt("load")].at < C20_NoteAt("volumechange")
    /\ C20_CallAt("play") # 0
    /\ obs.calls[C20_CallAt("play")].at >= C20_NoteAt("volumechange")
    /\ obs.calls[C20_CallAt("play")].at < C20_NoteAt("itemstarted")
    /\ C20_CallAt("seek") # 0 <=> player.opts.playerStartPositionTicks > 0
    /\ C20_CallAt("seek") # 0 =>
          obs.calls[C20_CallAt("seek")].at >= C20_NoteAt("itemstarted")

\* C20 (as stated): in every successful play() the steps happen in the
\* order load, saved volume, engine play attempt, item-started, start seek
\* (only if the start position is nonzero); no audio or subtitle selection
\* is issued before item-started or before the start seek.
C20_AsStated ==
    C20_Played =>
        /\ C20_Prefix
        /\ \A i \in 1..Len(obs.calls) :
              obs.calls[i].c \in {"setAudio", "setSubtitle"} => C20_AfterStartAndSeek(i)

\* C20 (amended): the steps happen in the order load, saved volume, engine
\* play attempt, item-started, start seek (only if the start position is
\* nonzero), then the default audio selection and the default subtitle
\* selection; the default audio selection is never issued earlier; in
\* plugin.js the default subtitle, when the media source declares one, is
\* in addition applied right after every successful engine play attempt
\* and fallback switch, that is before item-started and the start seek.
C20_Order ==
    C20_Played =>
        /\ C20_Prefix
        /\ \A i \in 1..Len(obs.calls) :
              /\ obs.calls[i].c = "setAudio" => C20_AfterStartAndSeek(i)
              /\ obs.calls[i].c = "setSubtitle" =>
                    \/ C20_AfterStartAndSeek(i)
                    \/ /\ build = "plugin"
                       /\ obs.calls[i].r = player.opts.DefaultSubtitleStreamIndex
                       /\ obs.calls[i].r >= 0
        /\ player.opts.DefaultAudioStreamIndex # NULL =>
              \E i \in 1..Len(obs.calls) :
                 /\ obs.calls[i].c = "setAudio"
                 /\ obs.calls[i].r = player.opts.DefaultAudioStreamIndex
        /\ player.opts.DefaultSubtitleStreamIndex # NULL =>
              \E i \in 1..Len(obs.calls) :
                 /\ obs.calls[i].c = "setSubtitle"
                 /\ obs.calls[i].r = player.opts.DefaultSubtitleStreamIndex
                 /\ C20_AfterStartAndSeek(i)

\* a play() with a start position and both defaults has resolved
C20_Witness ==
    /\ C20_Played
    /\ C20_CallAt("seek") # 0
    /\ C20_CallAt("setAudio") > C20_CallAt("seek")
    /\ C20_CallAt("setSubtitle") # 0

(***************************************************************************)
(* C21.  What a play() that could not load leaves behind.                  *)
(***************************************************************************)
\* play() has rejected because neither pipeline could load the source
C21_Failed == C11_Play /\ stack[1].pc = "thr" /\ C11_LoadFailed

\* the fetch indicator is cleared, end-fetch and one error were notified
C21_Signalled ==
    /\ ~player.isFetching
    /\ C13_Notes("endFetch") = 1
    /\ C13_Notes("error") = 1

\* C21: after play() has failed because the source could not be loaded on
\* either pipeline, the playback UI is torn down: no render container of
\* the player remains attached to the document, the fetching flag is false,
\* the fetch indicator was cleared and an error notification was raised.
C21_TornDown ==
    C21_Failed =>
        /\ C21_Signalled
        /\ player.container = "none" /\ player.videoDialog = "none"
        /\ dom.dialogs = 0

\* the failure was signalled, and the dialog with the render container
\* that play() and its fallback built is still in the document
C21_DialogLeft ==
    /\ C21_Failed
    /\ C21_Signalled
    /\ player.container = "attached" /\ player.videoDialog = "attached"
    /\ dom.dialogs = 1

(***************************************************************************)
(* Time harness.  currentTime(), currentTime(val), seek(ticks) and the     *)
(* start seek of play() applied to bounded inputs.  Values that may be     *)
(* fractional in the host (val) are given in tenths, so that Math.floor    *)
(* is a real conversion.  probe records the call: op, its argument, the    *)
(* value returned, the milliseconds handed to avplayer.seek (NULL when no  *)
(* seek was issued) and how the call ended.                                *)
(***************************************************************************)
TimePositions == {0, 7, 12345}

\* val of currentTime(val), in tenths
TimeValues10 == {0, 9, 35, 70, 250000, 1234567}

\* ticks of seek(ticks) and playerStartPositionTicks; NULL is a missing value
TickValues == {NULL, 0, 1, 9999, 10000, 10001, 25000, 79999, 123456789}

\* Math.floor of a value given in tenths
Floor10(x10) == x10 \div 10

TimeProbe(op, arg, out, sought, res) ==
    [op |-> op, arg |-> arg, out |-> out, sought |-> sought, res |-> res]

TimeInit ==
    /\ build \in Builds
    /\ \E a \in BOOLEAN :
          /\ player = [InitPlayer EXCEPT !.avplayer = a]
          /\ IF a THEN \E p \in TimePositions :
                          eng = [EngLoaded(NewEngine("mse"), 1, TRUE) EXCEPT !.pos = p]
                  ELSE eng = NoEngine
    /\ dom = [dialogs |-> 0, video |-> FALSE]
    /\ stack = <<>>
    /\ obs = ObsIdle
    /\ hist = [last |-> [fn |-> "none", arg |-> 0, res |-> "ret"], subOff |-> FALSE,
               ev |-> [pu |-> "none", quiet |-> FALSE, dup |-> FALSE]]
    /\ probe = TimeProbe("none", NULL, NULL, NULL, "ret")

\* variant of the getter that converts the engine position to ticks
currentTimeGetInTicks ==
    /\ probe' = TimeProbe("getTime", NULL,
                          IF player.avplayer THEN eng.pos * 10000 ELSE 0, NULL, "ret")
    /\ UNCHANGED <<build, player, eng, dom, stack, obs, hist>>

\* currentTime(): the engine's currentTime as a number, 0 without an engine
currentTimeGet ==
    /\ probe' = TimeProbe("getTime", NULL,
                          IF player.avplayer THEN eng.pos ELSE 0, NULL, "ret")
    /\ UNCHANGED <<build, player, eng, dom, stack, obs, hist>>

\* currentTime(val): seek the engine to Math.floor(val); the seek's failure
\* is not reported to the caller
currentTimeSet(val10) ==
    IF ~player.avplayer
    THEN /\ probe' = TimeProbe("setTime", val10, 0, NULL, "ret")
         /\ UNCHANGED <<build, player, eng, dom, stack, obs, hist>>
    ELSE \E r \in {"ok", "fail"} :
            /\ probe' = TimeProbe("setTime", val10, NULL, Floor10(val10), "ret")
            /\ eng' = IF r = "ok" THEN [eng EXCEPT !.pos = Floor10(val10)] ELSE eng
            /\ UNCHANGED <<build, player, dom, stack, obs, hist>>

\* seek(ticks)
seek(ticks) ==
    IF ~player.avplayer
    THEN /\ probe' = TimeProbe("seek", ticks, NULL, NULL,
                               IF build = "part001" THEN "ret" ELSE "thr")
         /\ UNCHANGED <<build, player, eng, dom, stack, obs, hist>>
    ELSE \E r \in {"ok", "fail"} :
            /\ probe' = TimeProbe("seek", ticks, NULL, TicksToMs(ticks),
                                  IF r = "ok" THEN "ret" ELSE "thr")
            /\ eng' = IF r = "ok" THEN [eng EXCEPT !.pos = TicksToMs(ticks)] ELSE eng
            /\ UNCHANGED <<build, player, dom, stack, obs, hist>>

\* the start seek of play(): options.playerStartPositionTicks || 0, a seek
\* only when it is positive; its failure ends play() in part001 only
startSeek(ticks) ==
    /\ player.avplayer
    /\ LET startTicks == IF ticks = NULL THEN 0 ELSE ticks
       IN  IF startTicks > 0
           THEN \E r \in {"ok", "fail"} :
                   /\ probe' = TimeProbe("startSeek", ticks, NULL, TicksToMs(startTicks),
                                         IF r = "fail" /\ build = "part001"
                                         THEN "thr" ELSE "ret")
                   /\ eng' = IF r = "ok" THEN [eng EXCEPT !.pos = TicksToMs(startTicks)]
                                         ELSE eng
           ELSE /\ probe' = TimeProbe("startSeek", ticks, NULL, NULL, "ret")
                /\ eng' = eng
    /\ UNCHANGED <<build, player, dom, stack, obs, hist>>

TimeNext ==
    \/ currentTimeGet
    \/ \E v \in TimeValues10 : currentTimeSet(v)
    \/ \E t \in TickValues : seek(t)
    \/ \E t \in TickValues : startSeek(t)

TimeSpec == TimeInit /\ [][TimeNext]_vars

(***************************************************************************)
(* C22.  Unit of the current time.                                         *)
(***************************************************************************)
\* the statement with ticks: the getter returns milliseconds times 10000
\* and the setter divides its argument by 10000 before seeking
C22_AsStated ==
    /\ (probe.op = "getTime" /\ player.avplayer) => probe.out = eng.pos * 10000
    /\ (probe.op = "setTime" /\ player.avplayer) =>
          probe.sought = Floor10(probe.arg) \div 10000

\* C22: currentTime() returns the engine position in milliseconds as it is
\* (0 without an engine), and currentTime(v) takes v as milliseconds: with an
\* engine the whole milliseconds m <= v < m + 1 are handed to the engine's
\* seek, without one nothing is sought.
C22_Milliseconds ==
    /\ probe.op = "getTime" =>
          probe.out = (IF player.avplayer THEN eng.pos ELSE 0)
    /\ probe.op = "setTime" =>
          IF player.avplayer
          THEN /\ probe.sought # NULL
               /\ probe.sought * 10 <= probe.arg
               /\ probe.arg < (probe.sought + 1) * 10
          ELSE probe.sought = NULL

\* currentTime() returns 3 after currentTime(3.5) moved the engine there
C22_Witness ==
    /\ probe.op = "getTime" /\ player.avplayer
    /\ probe.out = 3 /\ eng.pos = 3

(***************************************************************************)
(* C23.  Ticks to milliseconds on seek.                                    *)
(***************************************************************************)
\* ms is the floor of t / 10000
C23_FloorOf(t, ms) == ms * 10000 <= t /\ t < (ms + 1) * 10000

C23_Ticks == IF probe.arg = NULL THEN 0 ELSE probe.arg

\* C23: with an engine present, seek(t) hands exactly floor(t / 10000)
\* milliseconds to the engine's seek, 0 when t is missing; the start seek of
\* play() hands floor(t / 10000) when the start position is positive and
\* issues no seek when it is 0 or missing.
C23_FloorOfTicks ==
    /\ (probe.op = "seek" /\ player.avplayer) =>
          /\ probe.sought # NULL
          /\ C23_FloorOf(C23_Ticks, probe.sought)
    /\ probe.op = "startSeek" =>
          IF C23_Ticks = 0
          THEN probe.sought = NULL
          ELSE /\ probe.sought # NULL
               /\ C23_FloorOf(C23_Ticks, probe.sought)

\* seek(79999) moved the engine to 7 ms, one tick short of 8 ms
C23_Witness ==
    /\ probe.op = "seek" /\ probe.arg = 79999 /\ probe.res = "ret"
    /\ probe.sought = 7 /\ eng.pos = 7

\* a start position of 9999 ticks issues a seek to 0 ms
C23_StartWitness ==
    /\ probe.op = "startSeek" /\ probe.arg = 9999
    /\ probe.sought = 0

(***************************************************************************)
(* URL harness.  _computeUrl(options) applied to bounded options.  A       *)
(* missing or empty string is "", a missing object is a record whose has   *)
(* field is FALSE.  The result is the rule that produced it and the URL    *)
(* as the sequence of its parts.                                           *)
(***************************************************************************)
\* String.prototype.toLowerCase on the strings of the harness
ToLowerCase(s) ==
    CASE s = "Audio" -> "audio"
      [] s = "Video" -> "video"
      [] s = "MP4"   -> "mp4"
      [] OTHER       -> s

\* options.items[0]
UrlFirstItems ==
    {[has |-> FALSE, StreamUrl |-> "", Path |-> ""]} \cup
    [has : {TRUE}, StreamUrl : {"", "stream0"}, Path : {"", "path0"}]

\* options.item
UrlItems ==
    {[has |-> FALSE, MediaType |-> ""]} \cup [has : {TRUE}, MediaType : {"", "Audio", "Video"}]

\* options.mediaSource
UrlMediaSources ==
    {[has |-> FALSE, SupportsTranscoding |-> FALSE, TranscodingUrl |-> "", Container |-> ""]}
    \cup [has : {TRUE}, SupportsTranscoding : BOOLEAN,
          TranscodingUrl : {"", "transcode0"}, Container : {"", "MP4"}]

UrlOptions ==
    [url : {"", "explicit0"}, first : UrlFirstItems, item : UrlItems,
     mediaSource : UrlMediaSources, mediaType : {"", "Audio"}]

UrlResult(rule, url) == [rule |-> rule, url |-> url]

\* variant that constructs the direct-play URL before looking at transcoding
computeUrlDirectFirst(options, hasApiClient) ==
    CASE options.url # "" -> UrlResult("explicit", <<options.url>>)
      [] options.url = "" /\ options.first.has /\ options.first.StreamUrl # "" ->
            UrlResult("streamUrl", <<options.first.StreamUrl>>)
      [] options.url = "" /\ ~(options.first.has /\ options.first.StreamUrl # "")
            /\ options.first.has /\ options.first.Path # "" ->
            UrlResult("path", <<options.first.Path>>)
      [] OTHER ->
            IF ~options.item.has \/ ~options.mediaSource.has \/ ~hasApiClient
            THEN UrlResult("empty", <<>>)
            ELSE LET mediaType == ToLowerCase(IF options.mediaType # ""
                                              THEN options.mediaType
                                              ELSE options.item.MediaType)
                     prefix    == IF mediaType = "audio" THEN "Audio" ELSE "Videos"
                     container == ToLowerCase(IF options.mediaSource.Container # ""
                                              THEN options.mediaSource.Container
                                              ELSE "mkv")
                 IN  UrlResult("direct", <<"server", prefix, "stream", container>>)

\* _computeUrl(options); hasApiClient is whether
\* ServerConnections.getApiClient(item.ServerId) returns a client
computeUrl(options, hasApiClient) ==
    CASE options.url # "" -> UrlResult("explicit", <<options.url>>)
      [] options.url = "" /\ options.first.has /\ options.first.StreamUrl # "" ->
            UrlResult("streamUrl", <<options.first.StreamUrl>>)
      [] options.url = "" /\ ~(options.first.has /\ options.first.StreamUrl # "")
            /\ options.first.has /\ options.first.Path # "" ->
            UrlResult("path", <<options.first.Path>>)
      [] OTHER ->
            IF ~options.item.has \/ ~options.mediaSource.has \/ ~hasApiClient
            THEN UrlResult("empty", <<>>)
            ELSE IF options.mediaSource.SupportsTranscoding
                    /\ options.mediaSource.TranscodingUrl # ""
            THEN UrlResult("transcoding", <<"server", options.mediaSource.TranscodingUrl>>)
            ELSE LET mediaType == ToLowerCase(IF options.mediaType # ""
                                              THEN options.mediaType
                                              ELSE options.item.MediaType)
                     prefix    == IF mediaType = "audio" THEN "Audio" ELSE "Videos"
                     container == ToLowerCase(IF options.mediaSource.Container # ""
                                              THEN options.mediaSource.Container
                                              ELSE "mkv")
                 IN  UrlResult("direct", <<"server", prefix, "stream", container>>)

UrlInit ==
    /\ build \in Builds
    /\ player = InitPlayer
    /\ eng = NoEngine
    /\ dom = [dialogs |-> 0, video |-> FALSE]
    /\ stack = <<>>
    /\ obs = ObsIdle
    /\ hist = [last |-> [fn |-> "none", arg |-> 0, res |-> "ret"], subOff |-> FALSE,
               ev |-> [pu |-> "none", quiet |-> FALSE, dup |-> FALSE]]
    /\ \E o \in UrlOptions, a \in BOOLEAN :
          probe = [options |-> o, hasApiClient |-> a, out |-> UrlResult("none", <<>>),
                   n |-> 0]

\* one call _computeUrl(options)
UrlProbe ==
    /\ probe.n = 0
    /\ probe' = [probe EXCEPT !.n = 1,
                              !.out = computeUrl(probe.options, probe.hasApiClient)]
    /\ UNCHANGED <<build, player, eng, dom, stack, obs, hist>>

UrlNext == UrlProbe

UrlSpec == UrlInit /\ [][UrlNext]_vars

(***************************************************************************)
(* C24.  Priority of the rules that resolve the source URL.                *)
(***************************************************************************)
\* no explicit URL, and the first playlist item gives neither a stream URL
\* nor a path
C24_NoneGiven ==
    /\ probe.options.url = ""
    /\ ~(probe.options.first.has /\ probe.options.first.StreamUrl # "")
    /\ ~(probe.options.first.has /\ probe.options.first.Path # "")

\* item, media source and API client are all there
C24_Constructible ==
    probe.options.item.has /\ probe.options.mediaSource.has /\ probe.hasApiClient

C24_TranscodingOffered ==
    /\ probe.options.mediaSource.SupportsTranscoding
    /\ probe.options.mediaSource.TranscodingUrl # ""

\* the first three rules, common to the statement and to its amendment
C24_GivenRules ==
    /\ probe.options.url # "" => probe.out = UrlResult("explicit", <<probe.options.url>>)
    /\ (probe.options.url = "" /\ probe.options.first.has
            /\ probe.options.first.StreamUrl # "") =>
          probe.out = UrlResult("streamUrl", <<probe.options.first.StreamUrl>>)
    /\ (probe.options.url = "" /\ probe.options.first.has
            /\ probe.options.first.StreamUrl = "" /\ probe.options.first.Path # "") =>
          probe.out = UrlResult("path", <<probe.options.first.Path>>)

\* the statement: the constructed direct-play URL comes before the transcoding
\* URL, which is then the last choice
C24_AsStated ==
    probe.n = 1 =>
        /\ C24_GivenRules
        /\ (C24_NoneGiven /\ C24_Constructible) => probe.out.rule = "direct"

\* C24: the source URL is the explicit URL of the options; else the first
\* playlist item's stream URL, else its path; else, when item, media source
\* and API client are there, the server's transcoding URL if transcoding is
\* supported and such a URL is given, and the constructed direct-play URL
\* only otherwise; in every remaining case it is empty.
C24_Priority ==
    probe.n = 1 =>
        /\ C24_GivenRules
        /\ (C24_NoneGiven /\ C24_Constructible /\ C24_TranscodingOffered) =>
              probe.out = UrlResult("transcoding",
                                    <<"server", probe.options.mediaSource.TranscodingUrl>>)
        /\ (C24_NoneGiven /\ C24_Constructible /\ ~C24_TranscodingOffered) =>
              /\ probe.out.rule = "direct"
              /\ probe.out.url[2] =
                    (IF probe.options.mediaType = "Audio"
                        \/ (probe.options.mediaType = "" /\ probe.options.item.MediaType = "Audio")
                     THEN "Audio" ELSE "Videos")
              /\ probe.out.url[4] =
                    (IF probe.options.mediaSource.Container = "MP4" THEN "mp4" ELSE "mkv")
        /\ (C24_NoneGiven /\ ~C24_Constructible) => probe.out = UrlResult("empty", <<>>)

\* the transcoding URL was returned although a direct-play URL could have
\* been constructed
C24_Witness ==
    /\ probe.n = 1
    /\ C24_NoneGiven /\ C24_Constructible /\ C24_TranscodingOffered
    /\ probe.out.rule = "transcoding"

(***************************************************************************)
(* Metadata harness.  The mapper applied to audio streams for which the    *)
(* positional rule can fail: the host lists more embedded audio streams    *)
(* than the engine enumerates, or the target is external.  The engine      *)
(* streams match the targets by language only, by title only, by codec     *)
(* name only, or not at all.                                               *)
(***************************************************************************)
MetaHostPool ==
    { HS(1, "Audio", FALSE, "eng", "main", "aac"),
      HS(2, "Audio", FALSE, "jpn", "commentary", "ac3"),
      HS(3, "Audio", FALSE, "jpn", "commentary", "ac3"),
      HS(4, "Audio", TRUE, "jpn", "commentary", "ac3") }

MetaLibPool ==
    { LS(10, 1, "audio", "fre", "commentary", 86018),
      LS(11, 2, "audio", "jpn", "", 86018),
      LS(12, 3, "audio", "", "", 86019),
      LS(13, 4, "audio", "ger", "", 86028) }

MetaInit ==
    /\ build \in Builds
    /\ player = InitPlayer
    /\ eng = NoEngine
    /\ dom = [dialogs |-> 0, video |-> FALSE]
    /\ stack = <<>>
    /\ obs = ObsIdle
    /\ hist = [last |-> [fn |-> "none", arg |-> 0, res |-> "ret"], subOff |-> FALSE,
               ev |-> [pu |-> "none", quiet |-> FALSE, dup |-> FALSE]]
    /\ \E h \in ListsOf(MetaHostPool, MaxHost), l \in ListsOf(MetaLibPool, MaxLib) :
          probe = [NoProbe EXCEPT !.host = h, !.lib = l]

MetaNext == \E i \in ProbeIndices, k \in {"audio", "subtitle"} : MapProbe(i, k)

MetaSpec == MetaInit /\ [][MetaNext]_vars

(***************************************************************************)
(* C25.  Priority of the rules of the metadata fallback.                   *)
(***************************************************************************)
\* the probed host stream, when the host lists one of the kind
C25_Target ==
    CHOOSE i \in 1..Len(probe.host) :
        probe.host[i].Index = probe.jfIndex /\ probe.host[i].Type = HostType(probe.kind)

\* the mapper of plugin.js or part_000 was asked for a listed audio stream
\* that the positional rule cannot serve
C25_Fallback ==
    /\ probe.n = 1 /\ build # "part001" /\ probe.kind = "audio"
    /\ \E i \in 1..Len(probe.host) :
          probe.host[i].Index = probe.jfIndex /\ probe.host[i].Type = HostType(probe.kind)
    /\ \/ ~C1_TargetEmbedded
       \/ C1_Position > Cardinality(C1_Places)

C25_ByLanguage ==
    { j \in C1_Places : /\ probe.host[C25_Target].Language # ""
                        /\ probe.lib[j].lang = probe.host[C25_Target].Language }

C25_ByTitle ==
    { j \in C1_Places : /\ probe.host[C25_Target].Title # ""
                        /\ probe.lib[j].title = probe.host[C25_Target].Title }

\* C25: in the metadata fallback the rules are applied in priority order: if
\* an engine stream of the kind matches the host stream's language, the id
\* returned is that of a language-matching stream, whatever an earlier
\* enumerated stream matches by title or codec; failing that, if one matches
\* the title, the id returned is that of a title-matching stream.
C25_PriorityOrder ==
    C25_Fallback =>
        /\ C25_ByLanguage # {} =>
              \E j \in C25_ByLanguage : probe.out = probe.lib[j].id
        /\ (C25_ByLanguage = {} /\ C25_ByTitle # {}) =>
              \E j \in C25_ByTitle : probe.out = probe.lib[j].id

\* the id of a stream that matches by title only was returned although a
\* later stream has the language
C25_TitleBeforeLanguage ==
    /\ C25_Fallback
    /\ C25_ByLanguage # {}
    /\ \E j \in C25_ByTitle \ C25_ByLanguage :
          /\ probe.out = probe.lib[j].id
          /\ \A k \in C25_ByLanguage : j < k

\* the id of a stream that matches by codec name only was returned although
\* a later stream has the language
C25_CodecBeforeLanguage ==
    /\ C25_Fallback
    /\ C25_ByLanguage # {}
    /\ \E j \in C1_Places \ (C25_ByLanguage \cup C25_ByTitle) :
          /\ probe.out = probe.lib[j].id
          /\ \A k \in C25_ByLanguage : j < k

(***************************************************************************)
(* C26.  The id used by the retried selection.                             *)
(***************************************************************************)
\* setAudioStreamIndex / setSubtitleStreamIndex has just issued its retry on
\* the engine built by the switch
C26_Retried ==
    /\ stack # <<>>
    /\ Top(World).fn \in {"setAudio", "setSubtitle"}
    /\ Top(World).pc = "ret"
    /\ Top(World).tag \in {"retry ok", "retry failed"}

\* what the mapper resolves the requested host index to on the engine that
\* is now installed
C26_IdOnNewEngine ==
    MapIndex(build, player, eng, Top(World).arg, KindOf(Top(World).fn))

\* C26: after a switch triggered by a failed selection, the id handed to the
\* retried selection is the one the mapper resolves against the streams of
\* the new engine.
C26_RetryUsesNewId ==
    C26_Retried => Top(World).libId = C26_IdOnNewEngine

\* the retry was issued with the id resolved on the old engine, which the new
\* engine does not enumerate, while the mapper resolves the index to another
\* id on the new engine
C26_StaleId ==
    /\ C26_Retried
    /\ Top(World).tag = "retry failed"
    /\ C26_IdOnNewEngine # NULL
    /\ Top(World).libId # C26_IdOnNewEngine
    /\ Top(World).libId \notin IdsOfKind(eng, KindOf(Top(World).fn))

(***************************************************************************)
(* C27.  The other selection after a switch.                               *)
(***************************************************************************)
\* C27: once a selection operation has switched the pipeline and issued its
\* retry, the selection of the other kind is what it was when the operation
\* was entered: the audio host index after a switch triggered by a subtitle
\* selection, the subtitle host index after one triggered by an audio
\* selection.
C27_OtherSelectionReissued ==
    C26_Retried =>
        /\ Top(World).fn = "setSubtitle" =>
              getAudioStreamIndex(build, player, eng) = Top(World).held.a
        /\ Top(World).fn = "setAudio" =>
              getSubtitleStreamIndex(build, player, eng) = Top(World).held.s

\* part_000: audio stream 2 was selected when setSubtitleStreamIndex was
\* entered; after the switch the new engine plays its first audio stream
C27_AudioLost ==
    /\ build = "part000"
    /\ C26_Retried
    /\ Top(World).fn = "setSubtitle"
    /\ player.opts.url = 1
    /\ Top(World).held.a = 2
    /\ getAudioStreamIndex(build, player, eng) = 1
    /\ eng.selA = FirstAudio(EngStreams(eng))

\* part_000: subtitle 3 was selected when setAudioStreamIndex was entered;
\* after the switch no subtitle is selected
C27_SubtitleLost ==
    /\ build = "part000"
    /\ C26_Retried
    /\ Top(World).fn = "setAudio"
    /\ player.opts.url = 1
    /\ Top(World).held.s = 3
    /\ getSubtitleStreamIndex(build, player, eng) = -1

(***************************************************************************)
(* Stream updates.  The engine's STREAM_UPDATE listener, delivered while   *)
(* the host is idle, added to the operations of Spec.                      *)
(***************************************************************************)
\* the STREAM_UPDATE listener: plugin.js reapplies the subtitles, every
\* revision notifies mediastreamschange
StreamUpdate ==
    /\ stack = <<>>
    /\ player.avplayer /\ eng.st = "loaded"
    /\ Commit(Note(reapplySubtitlesAfterPipelineChange(build,
                                                       [World EXCEPT !.o = ObsIdle]),
                   "mediastreamschange", 0))
    /\ UNCHANGED <<build, hist, probe>>

UpdateNext == Next \/ StreamUpdate

UpdateSpec == Init /\ [][UpdateNext]_vars

(***************************************************************************)
(* C28.  The subtitle selection across a switch or a stream update.        *)
(***************************************************************************)
C28_Index == getSubtitleStreamIndex(build, player, eng)

\* the step completes _switchToMediaStreamMode
C28_SwitchCompletes ==
    /\ stack # <<>> /\ Top(World).fn = "switch" /\ Top(World).pc = "play"
    /\ stack' # <<>> /\ stack'[Len(stack')].fn = "switch"
    /\ stack'[Len(stack')].pc = "ret"

\* C28: a stream-update event leaves the value of getSubtitleStreamIndex()
\* as it was, and a completed pipeline switch leaves it at the value it had
\* when the switch began; in particular -1 stays -1 whatever default the
\* media source declares.
C28_SubtitleSelectionKept ==
    [][ /\ StreamUpdate => C28_Index' = C28_Index
        /\ C28_SwitchCompletes => C28_Index' = stack'[Len(stack')].held.s ]_vars

\* plugin.js: subtitles were disabled, no switch has happened, and after a
\* stream update the getter reports the declared default
C28_DefaultBack ==
    /\ build = "plugin"
    /\ stack = <<>>
    /\ hist.subOff
    /\ player.prefersMSE
    /\ obs.notes = <<[n |-> "mediastreamschange", v |-> 0]>>
    /\ player.opts.DefaultSubtitleStreamIndex >= 0
    /\ C28_Index = player.opts.DefaultSubtitleStreamIndex

\* part_000: a switch began with subtitle 3 selected and completed with none
C28_LostInSwitch ==
    /\ build = "part000"
    /\ stack # <<>> /\ Top(World).fn = "switch" /\ Top(World).pc = "ret"
    /\ Top(World).held.s = 3
    /\ C28_Index = -1

(***************************************************************************)
(* C29.  Order of the steps of a pipeline switch.                          *)
(***************************************************************************)
\* _switchToMediaStreamMode is the innermost call in progress
C29_InSwitch == stack # <<>> /\ Top(World).fn = "switch"

\* the place of the last call c among the calls of the operation (0 when
\* absent)
C29_LastCall(c) ==
    IF \E i \in 1..Len(obs.calls) : obs.calls[i].c = c
    THEN CHOOSE i \in 1..Len(obs.calls) :
            /\ obs.calls[i].c = c
            /\ \A j \in (i + 1)..Len(obs.calls) : obs.calls[j].c # c
    ELSE 0

\* C29: while the switch awaits the destruction of the old engine no new
\* engine has been constructed; once it goes on, the destruction has
\* settled, by completion or by failure, before the construction, the events
\* were bound to the new instance after its construction, and every load of
\* the new instance was issued after the binding.
C29_SwitchOrder ==
    C29_InSwitch =>
        IF Top(World).pc = "destroy"
        THEN /\ C29_LastCall("new") = 0
             /\ C29_LastCall("destroy") = 0
        ELSE /\ C29_LastCall("new") # 0
             /\ eng.mode = "ms"
             /\ C29_LastCall("destroy") < C29_LastCall("new")
             /\ C29_LastCall("destroy") # 0 =>
                   obs.calls[C29_LastCall("destroy")].r \in {"ok", "fail"}
             /\ C29_LastCall("bind") > C29_LastCall("new")
             /\ \A i \in 1..Len(obs.calls) :
                   (obs.calls[i].c = "load" /\ i > C29_LastCall("new")) =>
                       i > C29_LastCall("bind")
             /\ Top(World).pc \in {"play", "ret", "thr"} =>
                   C29_LastCall("load") > C29_LastCall("bind")

\* a switch went through although the old engine failed to destroy itself:
\* the new engine was constructed after that failure, bound and loaded
C29_Witness ==
    /\ C29_InSwitch
    /\ Top(World).pc = "ret"
    /\ Called("destroy", "fail")
    /\ C29_LastCall("destroy") < C29_LastCall("new")
    /\ C29_LastCall("new") < C29_LastCall("bind")
    /\ C29_LastCall("bind") < C29_LastCall("load")
    /\ eng.st = "loaded"

(***************************************************************************)
(* C30.  One engine instance at a time.                                    *)
(***************************************************************************)
\* the step constructs an engine instance
C30_Constructs == Len(obs'.built) > (IF stack = <<>> THEN 0 ELSE Len(obs.built))

\* the instance the adapter referred to before the step, if any, had been
\* destroyed, or its destruction completes within the step before the new
\* instance is constructed
C30_OldGone ==
    \/ eng.st \in {"none", "dead"}
    \/ \E i \in 1..Len(obs'.calls) :
          /\ i > (IF stack = <<>> THEN 0 ELSE Len(obs.calls))
          /\ obs'.calls[i].c = "destroy" /\ obs'.calls[i].r = "ok"

\* C30: at most one engine instance exists that has been constructed and not
\* destroyed.  The adapter refers to one instance at a time, so this says
\* that no step constructs an instance while the one referred to is not
\* destroyed.
C30_AtMostOneEngine == [][C30_Constructs => C30_OldGone]_vars

\* the last operation was a play() that resolved, nothing stopped or
\* destroyed its engine, and a second play() has constructed its own
C30_SecondPlay ==
    /\ Len(stack) = 1
    /\ stack[1].fn = "play" /\ stack[1].pc = "load"
    /\ hist.last.fn = "play" /\ hist.last.res = "ret"
    /\ obs.built = <<"mse">>
    /\ eng.st = "new"

\* the engine a resolved play() left is not destroyed as long as the host
\* is idle
C30_LiveAfterPlay ==
    (stack = <<>> /\ hist.last.fn = "play" /\ hist.last.res = "ret")
        => (player.avplayer /\ eng.st \notin {"none", "dead"})

(***************************************************************************)
(* C31.  What starts a pipeline switch.                                    *)
(***************************************************************************)
C31_Switches(s) == Cardinality({ i \in 1..Len(s) : s[i].fn = "switch" })

\* the step enters _switchToMediaStreamMode
C31_SwitchBegins == C31_Switches(stack') > C31_Switches(stack)

\* the last call the operation has made after the step
C31_LastCall == obs'.calls[Len(obs'.calls)]

\* the step resumes play() with the failure of its primary load
C31_PrimaryLoadFailed ==
    /\ stack # <<>>
    /\ Top(World).fn = "play" /\ Top(World).pc = "load"
    /\ obs'.calls # <<>>
    /\ C31_LastCall.c = "load" /\ C31_LastCall.r = "fail"

\* the step resumes a stream selection with the engine's refusal of the
\* selection as unsupported, the pipeline being the managed-source one
C31_SelectionUnsupported ==
    /\ stack # <<>>
    /\ Top(World).fn \in {"setAudio", "setSubtitle"} /\ Top(World).pc = "sel1"
    /\ obs'.calls # <<>>
    /\ C31_LastCall.c = "select" /\ C31_LastCall.r = "unsupported"
    /\ player.prefersMSE

\* C31: a step enters the pipeline switch only when it resumes play() with
\* the failure of the primary load, or a stream selection with the engine's
\* refusal of the selection as unsupported; no other step, and no engine
\* event, does, and an engine is constructed in raw-stream mode only inside
\* a switch.
C31_SwitchOnlyOnProbeFailure ==
    [][ /\ C31_SwitchBegins => (C31_PrimaryLoadFailed \/ C31_SelectionUnsupported)
        /\ StreamUpdate => (~C31_SwitchBegins /\ eng' = eng)
        /\ (eng'.mode = "ms" /\ eng.mode # "ms") =>
              (stack # <<>> /\ Top(World).fn = "switch") ]_vars

\* part_000: setSubtitleStreamIndex has entered the switch after the engine
\* refused the selection as unsupported
C31_Witness ==
    /\ build = "part000"
    /\ Len(stack) = 3
    /\ stack[1].fn = "setSubtitle" /\ stack[1].first = "unsupported"
    /\ stack[3].fn = "switch" /\ stack[3].pc = "destroy"
    /\ eng.mode = "mse"

\* a selection that failed with another error has returned without a switch
C31_OtherErrorNoSwitch ==
    /\ Done("setAudio")
    /\ stack[1].first = "error" /\ stack[1].pc = "ret"
    /\ obs.built = <<>>
    /\ player.prefersMSE

(***************************************************************************)
(* C32.  A failed reload inside a switch.                                  *)
(***************************************************************************)
\* the places of the failed raw-stream loads among the loads of the
\* operation
C32_FailedReloads ==
    { i \in 1..Len(obs.loads) : obs.loads[i].mode = "ms" /\ obs.loads[i].r = "fail" }

\* an operation of the host has finished in which the reload of a switch
\* failed
C32_ReloadFailed ==
    /\ Len(stack) = 1 /\ Finished(stack[1])
    /\ stack[1].fn \in {"play", "setAudio", "setSubtitle"}
    /\ C32_FailedReloads # {}

C33_SwitchStep ==
    /\ stack # <<>>
    /\ \/ Top(World).fn \in {"switch", "ensure"} /\ ~Finished(Top(World))
       \/ /\ Len(stack) >= 2
          /\ Top(World).fn = "switch" /\ Finished(Top(World))
          /\ Top(Pop(World)).fn = "ensure"

\* the notifications of an end of playback among the first k of a list
C33_Stops(notes) ==
    Cardinality({ i \in 1..Len(notes) : notes[i].n \in {"itemstopped", "stopped"} })

C34_Live == player.avplayer /\ eng.st = "loaded"

\* C34: in part_000, whenever an engine instance is live, every id the
\* mapper returns for a host index and a kind, the ids of the
\* external-subtitle fast path included, is the id of a stream of that kind
\* the live instance enumerates.
C34_IdsOfLiveEngine ==
    (build = "part000" /\ C34_Live) =>
        \A i \in AudioIndices \cup SubtitleIndices, kind \in {"audio", "subtitle"} :
            LET id == MapIndex(build, player, eng, i, kind)
            IN  id # NULL => id \in IdsOfKind(eng, kind)

\* part_000: after a pipeline switch the mapper still answers host index 4
\* with the id the destroyed engine gave the ingested external subtitle; the
\* raw-stream engine enumerates no such stream
C34_StaleExternalId ==
    /\ build = "part000"
    /\ C34_Live /\ eng.mode = "ms"
    /\ stack = <<>>
    /\ 4 \in DOMAIN player.subMap
    /\ MapIndex(build, player, eng, 4, "subtitle") = player.subMap[4]
    /\ player.subMap[4] \notin IdsOfKind(eng, "subtitle")
    /\ eng.ext = <<>>


(***************************************************************************)
(* Overlapping calls.  The host does not await a selection before it       *)
(* issues the next one: after play() has settled, one setAudioStreamIndex  *)
(* and one setSubtitleStreamIndex are in flight together.  The script is   *)
(* single-threaded, so the two invocations interleave at their awaits      *)
(* only: stack is the invocation that runs next and probe.s the one that   *)
(* is suspended meanwhile, and Yield exchanges them.  The finished frames  *)
(* are kept, and obs is not reset, so that obs.built counts the engines    *)
(* built since play() settled.                                             *)
(***************************************************************************)
ConcProbe == [s |-> <<>>, issued |-> {}]

ConcAudioIndices == {2, 9}

ConcSubtitleIndices == {3, 4}

ConcInit ==
    /\ build \in Builds
    /\ player = InitPlayer
    /\ eng = NoEngine
    /\ dom = [dialogs |-> 0, video |-> FALSE]
    /\ stack = <<>>
    /\ obs = ObsIdle
    /\ hist = [last |-> [fn |-> "none", arg |-> 0, res |-> "ret"], subOff |-> FALSE,
               ev |-> [pu |-> "none", quiet |-> FALSE, dup |-> FALSE]]
    /\ probe = ConcProbe

\* the one play() of the session
ConcPlay(o) ==
    /\ probe = ConcProbe
    /\ hist.last.fn = "none"
    /\ PlayStart(o)

ConcSettle ==
    /\ Len(stack) = 1
    /\ stack[1].fn = "play"
    /\ Settle

ConcPlaying == hist.last.fn = "play" /\ hist.last.res = "ret"

ConcSetAudio(i) ==
    /\ stack = <<>>
    /\ ConcPlaying
    /\ "setAudio" \notin probe.issued
    /\ Commit(EnterSetAudio(build, World, i))
    /\ probe' = [probe EXCEPT !.issued = @ \cup {"setAudio"}]
    /\ UNCHANGED <<build, hist>>

ConcSetSubtitle(i) ==
    /\ stack = <<>>
    /\ ConcPlaying
    /\ "setSubtitle" \notin probe.issued
    /\ Commit(EnterSetSubtitle(build, World, i))
    /\ probe' = [probe EXCEPT !.issued = @ \cup {"setSubtitle"}]
    /\ UNCHANGED <<build, hist>>

\* the running invocation is suspended at an await (or has finished) and
\* the other one goes on
Yield ==
    /\ probe.issued # {}
    /\ stack # probe.s
    /\ stack' = probe.s
    /\ probe' = [probe EXCEPT !.s = stack]
    /\ UNCHANGED <<build, player, eng, dom, obs, hist>>

ConcNext ==
    \/ \E o \in EventOptions : ConcPlay(o)
    \/ PlayLoaded
    \/ PlayFallback
    \/ PlayPlayed
    \/ PlayDefaultsUnawaited
    \/ ConcSettle
    \/ Tick
    \/ \E i \in ConcAudioIndices : ConcSetAudio(i)
    \/ \E i \in ConcSubtitleIndices : ConcSetSubtitle(i)
    \/ Yield
    \/ SelectFirst
    \/ SelectEnsured
    \/ SelectRetry
    \/ LoadExternalSubtitle
    \/ SelectAfterExternal
    \/ SwitchRebuild
    \/ SwitchLoaded
    \/ SwitchPlayed
    \/ EnsureSwitched
    \/ EnsureSeeked
    \/ EnsurePlayed

ConcSpec == ConcInit /\ [][ConcNext]_vars

C35_BothUnsupported ==
    /\ stack # <<>> /\ probe.s # <<>>
    /\ {stack[1].fn, probe.s[1].fn} = {"setAudio", "setSubtitle"}
    /\ stack[1].first = "unsupported"
    /\ probe.s[1].first = "unsupported"

C35_Switches == Cardinality({i \in 1..Len(obs.built) : obs.built[i] = "ms"})

\* C35: when a setAudioStreamIndex and a setSubtitleStreamIndex overlap and
\* the selection of each fails as unsupported, at most one raw-stream engine
\* is constructed, whatever the interleaving
C35_AtMostOneSwitch == C35_BothUnsupported => C35_Switches <= 1

\* both calls have finished and each has rebuilt the engine
C35_TwoSwitches ==
    /\ build = "part000"
    /\ C35_BothUnsupported
    /\ Finished(stack[1]) /\ Finished(probe.s[1])
    /\ Len(stack) = 1 /\ Len(probe.s) = 1
    /\ C35_Switches = 2


C36_Live == player.avplayer /\ eng.st \notin {"none", "dead"}

\* C36: between the host's calls, whenever an engine is live, the
\* prefers-managed-source flag is set exactly when that engine was
\* constructed in managed-source mode
C36_FlagMatchesEngine ==
    (stack = <<>> /\ C36_Live) => (player.prefersMSE <=> eng.mode = "mse")

\* the reload inside a switch failed: the raw-stream engine stays, the flag
\* still says managed-source
C36_AfterFailedReload ==
    /\ stack = <<>>
    /\ C36_Live
    /\ eng.mode = "ms" /\ eng.st = "failed"
    /\ player.prefersMSE

\* a play() after a session that had fallen back: the new engine is a
\* managed-source one, the flag still says raw-stream
C36_StaleFlagAfterPlay ==
    /\ stack = <<>>
    /\ hist.last.fn = "play" /\ hist.last.res = "ret"
    /\ C36_Live
    /\ eng.mode = "mse" /\ eng.st = "loaded"
    /\ ~player.prefersMSE


(***************************************************************************)
(* The engine's own end of playback.  _bindEvents registers a listener     *)
(* for 'ended' and one for 'stopped'; both call _onEndedInternal.  The     *)
(* engine emits 'ended' when the media runs out while the session plays,   *)
(* and 'stopped' while its stop() is being awaited.                        *)
(***************************************************************************)
EndStopped(notes) == SelectSeq(notes, LAMBDA x : x.n = "stopped")

\* the 'ended' listener
EngineEnded ==
    /\ stack = <<>>
    /\ hist.last.fn = "play" /\ hist.last.res = "ret"
    /\ player.avplayer /\ eng.st = "loaded"
    /\ obs.notes = <<>>
    /\ Commit(onEndedInternal(build, World))
    /\ UNCHANGED <<build, hist, probe>>

\* the 'stopped' listener, run while stop() awaits the engine's stop
EngineStopped ==
    /\ stack # <<>>
    /\ Top(World).fn = "stop" /\ Top(World).pc = "stop"
    /\ player.avplayer /\ eng.st \notin {"none", "dead"}
    /\ EndStopped(obs.notes) = <<>>
    /\ Commit(onEndedInternal(build, World))
    /\ UNCHANGED <<build, hist, probe>>

EndNext ==
    \/ \E o \in EventOptions : PlayStart(o)
    \/ PlayLoaded
    \/ PlayFallback
    \/ PlayPlayed
    \/ PlayDefaultsUnawaited
    \/ SwitchRebuild
    \/ SwitchLoaded
    \/ SwitchPlayed
    \/ \E d \in {0, 1} : StopStart(d)
    \/ StopStopped
    \/ StopDestroyed
    \/ Settle
    \/ Tick
    \/ EngineEnded
    \/ EngineStopped

EndSpec == Init /\ [][EndNext]_vars

\* a stop() that followed a play() which resolved: the session is the one
\* that play() started
C37_StopOfSession ==
    /\ Done("stop")
    /\ hist.last.fn = "play" /\ hist.last.res = "ret"

\* C37: a stop() of a playing session leaves the host with at most one
\* stopped notification, and that one carries the source of the session,
\* also when the engine emitted ended or stopped itself
C37_StoppedOnce ==
    C37_StopOfSession =>
        /\ Len(EndStopped(obs.notes)) <= 1
        /\ \A i \in 1..Len(obs.notes) :
              obs.notes[i].n = "stopped" => obs.notes[i].v # NULL

\* the engine emitted stopped during stop(): the host was notified with
\* the source first and then again without one
C37_NotifiedTwice ==
    /\ C37_StopOfSession
    /\ Len(EndStopped(obs.notes)) = 2
    /\ EndStopped(obs.notes)[1].v # NULL
    /\ EndStopped(obs.notes)[2].v = NULL

\* the engine emitted ended before stop(): the notification of stop()
\* carries no source
C37_NullSource ==
    /\ C37_StopOfSession
    /\ Len(EndStopped(obs.notes)) = 1
    /\ EndStopped(obs.notes)[1].v = NULL


(***************************************************************************)
(* stop(true) while play() is in flight.  The host calls stop(true) while  *)
(* play() is suspended at the load of the managed-source engine; stop runs *)
(* to its end (probe.s holds the suspended play meanwhile), then play()    *)
(* resumes.  A load that was pending on an engine that has been destroyed  *)
(* rejects.                                                                *)
(***************************************************************************)
TornPlay(o) ==
    /\ probe = ConcProbe
    /\ hist.last.fn = "none"
    /\ PlayStart(o)

\* stop(true) up to the engine's stop, called while play() awaits the load
OverlapStop ==
    /\ Len(stack) = 1
    /\ stack[1].fn = "play" /\ stack[1].pc = "load"
    /\ probe.s = <<>> /\ "stop" \notin probe.issued
    /\ Commit(Push([World EXCEPT !.s = <<>>],
                   [Frame("stop", "stop", 1) EXCEPT
                       !.posMs = IF player.avplayer THEN eng.pos ELSE 0]))
    /\ probe' = [s |-> stack, issued |-> {"stop"}]
    /\ UNCHANGED <<build, hist>>

\* stop(true) has settled; the suspended play() is the one that runs next
Resume ==
    /\ Len(stack) = 1
    /\ stack[1].fn = "stop" /\ Finished(stack[1])
    /\ probe.s # <<>>
    /\ stack' = probe.s
    /\ probe' = [probe EXCEPT !.s = stack]
    /\ UNCHANGED <<build, player, eng, dom, obs, hist>>

\* the load settles on an engine that was not destroyed
TornPlayLoaded ==
    /\ eng.st # "dead"
    /\ PlayLoaded

\* the load that was pending on the destroyed engine rejects: the fallback
\* starts (plugin.js, part_000) or play rejects (part_001)
PlayLoadAborted ==
    /\ stack # <<>>
    /\ Top(World).fn = "play" /\ Top(World).pc = "load"
    /\ eng.st = "dead"
    /\ LET f  == Top(World)
           w0 == [Call(Pop(World), "load", "fail") EXCEPT
                     !.o.loads = Append(@, [mode |-> eng.mode, r |-> "fail", by |-> "play"])]
       IN  Commit(IF build = "part001" THEN PlayCatch(w0, f)
                  ELSE EnterSwitch(Push(w0, [f EXCEPT !.pc = "fallback"]), f.arg))
    /\ UNCHANGED <<build, hist, probe>>

TornNext ==
    \/ \E o \in EventOptions : TornPlay(o)
    \/ OverlapStop
    \/ StopStopped
    \/ StopDestroyed
    \/ Resume
    \/ TornPlayLoaded
    \/ PlayLoadAborted
    \/ PlayFallback
    \/ PlayPlayed
    \/ PlayDefaultsUnawaited
    \/ SwitchRebuild
    \/ SwitchLoaded
    \/ SwitchPlayed

TornSpec == ConcInit /\ [][TornNext]_vars

\* play() has settled, stop(true) had completed while it was suspended
C38_PlaySettledAfterTeardown ==
    /\ Len(stack) = 1
    /\ stack[1].fn = "play" /\ Finished(stack[1])
    /\ probe.s # <<>>

\* C38: when stop(true) completed while play() was suspended in the load,
\* then after play() has settled no render container is attached and no
\* engine is live
C38_NothingLeft ==
    C38_PlaySettledAfterTeardown =>
        /\ player.container = "none"
        /\ dom.dialogs = 0
        /\ ~(player.avplayer /\ eng.st \notin {"none", "dead"})

\* the engine was destroyed by stop(true), the load rejected and the
\* fallback of play() built the dialog and a raw-stream engine again
C38_Recreated ==
    /\ C38_PlaySettledAfterTeardown
    /\ stack[1].pc = "ret"
    /\ obs.built = <<"mse", "ms">>
    /\ \E i \in 1..Len(obs.calls) : obs.calls[i].c = "destroy" /\ obs.calls[i].r = "ok"
    /\ player.container = "attached" /\ dom.dialogs = 1
    /\ player.avplayer /\ eng.mode = "ms" /\ eng.st = "loaded"


(***************************************************************************)
(* C39.  One ingestion of an external subtitle per session (part_000).     *)
(***************************************************************************)
\* the step issues avplayer.loadExternalSubtitle for host index i
C39_LoadIssued(i) ==
    /\ stack' # <<>>
    /\ stack'[Len(stack')].fn = "loadExternalSubtitle"
    /\ stack'[Len(stack')].pc = "load"
    /\ stack'[Len(stack')].arg = i
    /\ ~(stack # <<>> /\ Top(World).fn = "loadExternalSubtitle")

\* the step is the settling, without error, of the load for host index i
C39_LoadCompleted(i) ==
    /\ stack # <<>>
    /\ Top(World).fn = "loadExternalSubtitle" /\ Top(World).pc = "load"
    /\ Top(World).arg = i
    /\ stack'[Len(stack')].pc = "ret"

\* the step is the start of a play()
C39_PlayBegins == stack = <<>> /\ stack' # <<>> /\ stack'[1].fn = "play"

\* the step runs destroy()
C39_Destroys == stack # <<>> /\ Top(World).fn = "stop" /\ Top(World).pc = "destroy"

====
